---- MODULE Spec2Model ----
(***************************************************************************)
(* The macOS control-flow loop of winit: the process-wide Handler of       *)
(* src/platform_impl/macos/app_state.rs, driven by the application         *)
(* delegate (launched), the run-loop observers (wakeup, cleared), the      *)
(* window delegates (queue_event, queue_events) and the event-loop proxy.  *)
(***************************************************************************)
EXTENDS Integers, Sequences, FiniteSets, TLC

\* ---------------------------------------------------------------- bounds
MaxTime == 2        \* the clock runs over 0..MaxTime
MaxEvents == 2      \* window/device events queued in one run
MaxCalls == 6       \* an iteration starts only while fewer callback calls were made
MaxThreads == 2     \* threads calling into AppState at the same time
MaxPending == 3     \* events a thread may leave queued before any is taken
MaxWindows == 1     \* windows that ask for an input context
MaxCoord == 1       \* coordinates of spots, positions and frame origins 0..MaxCoord
MaxServers == 2     \* input-method servers advertised in XIM_SERVERS
MaxXims == 3        \* input methods opened in one run
MaxDevices == 2     \* keyboard devices
MaxBorder == 3      \* border widths 0..MaxBorder
MaxSize == 2        \* widths and heights 1..MaxSize

\* ---------------------------------------------------------------- values
None == -1          \* Option::None of an Instant

Times == 0..MaxTime
Deadlines == {1, 2} \* the instants a callback asks to be resumed at

\* ControlFlow (src/event_loop.rs:51-63)
Poll == [tag |-> "Poll", at |-> None]
Wait == [tag |-> "Wait", at |-> None]
Exit == [tag |-> "Exit", at |-> None]
WaitUntil(t) == [tag |-> "WaitUntil", at |-> t]
ControlFlow == {Poll, Wait, Exit} \cup {WaitUntil(t) : t \in Deadlines}

\* impl Default for ControlFlow
ControlFlowDefault == Poll

\* StartCause, as carried by Event::NewEvents
CauseInit == [kind |-> "Init", start |-> None, requested_resume |-> None]
CausePoll == [kind |-> "Poll", start |-> None, requested_resume |-> None]
WaitCancelled(start, rr) == [kind |-> "WaitCancelled", start |-> start, requested_resume |-> rr]
ResumeTimeReached(start, rr) == [kind |-> "ResumeTimeReached", start |-> start, requested_resume |-> rr]
NoCause == [kind |-> "None", start |-> None, requested_resume |-> None]

\* Event<Never>, as handed to the callback
NewEvents(cause) == [type |-> "NewEvents", id |-> 0, cause |-> cause]
Queued(id) == [type |-> "Queued", id |-> id, cause |-> NoCause]
EventsCleared == [type |-> "EventsCleared", id |-> 0, cause |-> NoCause]
LoopDestroyed == [type |-> "LoopDestroyed", id |-> 0, cause |-> NoCause]

\* what the trace keeps of an event: its type and identity
Seen(event) == [type |-> event.type, id |-> event.id]

\* EventLoopWaker: the timer that ends the run loop's wait
WakerStopped == [mode |-> "stopped", at |-> None]
WakerStarted == [mode |-> "started", at |-> None]
WakerAt(t) == [mode |-> "at", at |-> t]

VARIABLES
    ready,              \* Handler.ready
    control_flow,       \* Handler.control_flow
    control_flow_prev,  \* Handler.control_flow_prev
    start_time,         \* Handler.start_time
    callback,           \* Handler.callback is Some
    pending_events,     \* Handler.pending_events
    waker,              \* Handler.waker
    phase,              \* the run loop: new, processing, waiting, exited, panicked
    stop_requested,     \* [NSApp stop:] was sent
    pc,                 \* position of the main thread inside AppState::cleared
    batch,              \* the events taken by cleared and not dispatched yet
    will_stop,          \* cleared's local will_stop
    now,                \* Instant::now()
    next_id,            \* identity of the next queued event
    trace,              \* every invocation of the user callback, in order
    last_cause,         \* the StartCause of the latest NewEvents
    handed,             \* the control flow handed to the latest NewEvents
    left,               \* the control flow left by the latest EventsCleared
    stop_at,            \* Len(trace) when the loop first observed Exit, else 0
    last_cleared,       \* how the latest cleared returned
    waker_call,         \* the waker call issued by the latest cleared
    panic,              \* the panic that ended the program, if any
    proxy_result,       \* how the latest Proxy::send_event ended
    thr,                \* per thread: the AppState call it is in, and where
    callback_lock,      \* holder of Handler.callback's mutex, 0 if free
    control_flow_lock   \* holder of Handler.control_flow's mutex, 0 if free

\* The X11 input method (src/platform/linux/x11/ime): ImeInner, the native
\* XIM/XIC objects behind it, and what the latest calls did
VARIABLES
    ime_phase,               \* closed, open, failed, panicked, dropped
    potential_input_methods, \* ImeInner.potential_input_methods
    im,                      \* ImeInner.im: index into xims, 0 before Ime::new
    contexts,                \* ImeInner.contexts, each XIC with its native state
    destroyed,               \* ImeInner.destroyed
    xims,                    \* every XIM that XOpenIM returned, in order
    instantiate_callback,    \* an instantiate callback is registered
    negotiation,             \* the latest open_im: candidates, attempts, result
    bounce,                  \* the latest server notification handled
    snap,                    \* the registry when the destroy notification came
    last,                    \* the latest Ime call: op, window, result, releases
    env                      \* XMODIFIERS is set, and what XIM_SERVERS holds

ime == <<ime_phase, potential_input_methods, im, contexts, destroyed, xims,
         instantiate_callback, negotiation, bounce, snap, last, env>>

\* The keyboard states of src/platform/linux/x11/xkb: Xkb.states with the
\* compose engine of each device, and what the latest call returned
VARIABLES
    xkb_phase,               \* open, panicked
    states,                  \* Xkb.states: per device id, the XkbState if any
    data                     \* the latest Xkb call with its XkbReturnData

xkb == <<xkb_phase, states, data>>

\* The frame extents of src/platform/linux/x11/util/geometry.rs: what the
\* server answers about the window, and what the heuristic gave
VARIABLES
    answers,                 \* the replies of the X server for the window
    heuristic,               \* the FrameExtentsHeuristic, or the panic
    converted                \* the latest get_position or get_outer_size

geo == <<answers, heuristic, converted>>

\* The translation of native events of
\* src/platform_impl/macos/event_loop.rs and src/platform/ios/mod.rs, and the
\* window delegate of src/platform_impl/macos/window_delegate.rs.
VARIABLES
    modifiers,               \* EventLoop.modifiers
    flag_events,             \* per mask, the state of the latest event given for it
    translated,              \* the latest native event with what it gave
    frame,                   \* the origin of the frame of the NSWindow
    previous_position,       \* WindowDelegateState.previous_position
    last_moved,              \* the position of the latest Moved queued
    notified                 \* the latest notification with what it queued

cocoa == <<modifiers, flag_events, translated, frame, previous_position,
           last_moved, notified>>

handler == <<ready, control_flow, control_flow_prev, start_time, callback,
             pending_events, waker>>
loop == <<phase, stop_requested, pc, batch, will_stop>>
history == <<trace, last_cause, handed, left, stop_at, last_cleared, waker_call>>
conc == <<thr, callback_lock, control_flow_lock>>

appkit == <<handler, loop, now, next_id, history, panic, proxy_result, conc>>

vars == <<handler, loop, now, next_id, history, panic, proxy_result, conc, ime,
          xkb, geo, cocoa>>

Last(s) == s[Len(s)]

\* ------------------------------------------------------------- Handler
is_ready_unchecked == TRUE

is_ready == ready

is_control_flow_exit_never(cf) == FALSE

is_control_flow_exit(cf) == cf = Exit

\* Handler::take_events: what is returned, and what is left in the queue
take_events_none(q) == << >>
take_events(q) == q
left_by_take_events_kept(q) == q
left_by_take_events(q) == << >>

\* What the user callback does with one event: it leaves the control flow
\* alone or writes a value, and it may cause an event to be queued.
Keep == [tag |-> "keep", at |-> None]
Writes == {Keep} \cup ControlFlow
Queues == IF next_id <= MaxEvents THEN BOOLEAN ELSE {FALSE}

\* the &mut ControlFlow the callback is given
control_flow_handed_default(cf) == ControlFlowDefault
control_flow_handed(cf) == cf

written(cf, w) == IF w = Keep THEN control_flow_handed(cf) ELSE w

\* Handler::handle_nonuser_event
handle_nonuser_event(event, w, q) ==
    IF callback
    THEN /\ trace' = Append(trace, Seen(event))
         /\ last_cause' = IF event.type = "NewEvents" THEN event.cause
                          ELSE last_cause
         /\ control_flow' = written(control_flow, w)
         /\ IF q
            THEN /\ pending_events' = Append(pending_events, next_id)
                 /\ next_id' = next_id + 1
            ELSE UNCHANGED <<pending_events, next_id>>
    ELSE UNCHANGED <<trace, last_cause, control_flow, pending_events, next_id>>

start_cause_strict(cf, start, t) ==
    CASE cf.tag = "Poll" -> CausePoll
      [] cf.tag = "Wait" -> WaitCancelled(start, None)
      [] cf.tag = "WaitUntil" ->
            IF t > cf.at
            THEN ResumeTimeReached(start, cf.at)
            ELSE WaitCancelled(start, cf.at)
      [] cf.tag = "Exit" -> CausePoll

\* the match of AppState::wakeup
start_cause(cf, start, t) ==
    CASE cf.tag = "Poll" -> CausePoll
      [] cf.tag = "Wait" -> WaitCancelled(start, None)
      [] cf.tag = "WaitUntil" ->
            IF t >= cf.at
            THEN ResumeTimeReached(start, cf.at)
            ELSE WaitCancelled(start, cf.at)
      [] cf.tag = "Exit" -> CausePoll

waker_call_for_always(old, new) ==
    CASE old = Exit \/ new = Exit -> "unreachable"
      [] old # Exit /\ new.tag = "Wait" -> "stop"
      [] old # Exit /\ new.tag = "WaitUntil" -> "start_at"
      [] old # Exit /\ new.tag = "Poll" -> "start"

\* the match of AppState::cleared: the waker call it makes
waker_call_for(old, new) ==
    CASE old = Exit \/ new = Exit -> "unreachable"
      [] old # Exit /\ new # Exit /\ old = new -> "none"
      [] old # Exit /\ new # Exit /\ old # new /\ new.tag = "Wait" -> "stop"
      [] old # Exit /\ new # Exit /\ old # new /\ new.tag = "WaitUntil" -> "start_at"
      [] old # Exit /\ new # Exit /\ old # new /\ new.tag = "Poll" -> "start"

\* EventLoopWaker::start / stop / start_at
waker_after(call, new, w) ==
    CASE call = "stop" -> WakerStopped
      [] call = "start_at" -> WakerAt(new.at)
      [] call = "start" -> WakerStarted
      [] OTHER -> w

Running == phase \in {"processing", "waiting"}

\* ------------------------------------------------- the X11 input method
Windows == 1..MaxWindows

XPoint(x, y) == [x |-> x, y |-> y]
Origin == XPoint(0, 0)
Spots == {Origin, XPoint(MaxCoord, 0), XPoint(0, MaxCoord)}
NoSpot == XPoint(None, None)    \* Option<XPoint>::None

\* a native XIC: the XIM it was created on, the preedit spot it was given
\* and whether it has the focus
Xic(xim, spot) == [im |-> xim, spot |-> spot, focused |-> FALSE]
NoXic == [im |-> 0, spot |-> NoSpot, focused |-> FALSE]

\* ImeInner.contexts gives every window its entry: no key (Vacant), a key
\* holding None (NoContext), or a key holding Some(ImeContext { ic, ic_spot })
Vacant == [key |-> FALSE, some |-> FALSE, ic |-> NoXic, ic_spot |-> Origin]
NoContext == [key |-> TRUE, some |-> FALSE, ic |-> NoXic, ic_spot |-> Origin]
ImeContext(ic, spot) == [key |-> TRUE, some |-> TRUE, ic |-> ic, ic_spot |-> spot]
NoContexts == [w \in Windows |-> Vacant]
Keys(c) == {w \in Windows : c[w].key}

\* PotentialInputMethod::from_string / from_str
PotentialInputMethod == [failed |-> FALSE]

\* a locale modifier is named by its tier and its place in the tier
Tiers == <<"XModifiers", "XimServers", "Fallbacks">>
Candidates ==
    {<<"XModifiers", 1>>} \cup {<<"XimServers", i>> : i \in 1..MaxServers}
        \cup {<<"Fallbacks", 1>>, <<"Fallbacks", 2>>}

\* get_xim_servers: Err, or Ok with the names of the advertised servers
ServerQueries ==
    {[some |-> FALSE, list |-> << >>]} \cup
    {[some |-> TRUE, list |-> [i \in 1..n |-> PotentialInputMethod]] :
        n \in 0..MaxServers}

\* the environment of the process: whether XMODIFIERS is set, and the answer
\* to the query for XIM_SERVERS
Environment(xmodifiers, servers) == [xmodifiers |-> xmodifiers, servers |-> servers]
Environments ==
    {Environment(x, q) : x \in BOOLEAN, q \in ServerQueries}
BareEnvironment == Environment(FALSE, [some |-> FALSE, list |-> << >>])
\* XMODIFIERS names an input-method server and XIM_SERVERS advertises it
ServedEnvironment ==
    Environment(TRUE, [some |-> TRUE, list |-> <<PotentialInputMethod>>])

\* the locale modifiers that give an input method at some moment: none, one
\* or all
Availabilities == {{}, Candidates} \cup {{c} : c \in Candidates}

\* PotentialInputMethods::new; an Option is a sequence of at most one
PotentialInputMethods_new(xmodifiers, servers) ==
    [xmodifiers |-> IF xmodifiers THEN <<PotentialInputMethod>> ELSE << >>,
     xim_servers |-> servers,
     fallbacks |-> <<PotentialInputMethod, PotentialInputMethod>>]

NoPotentialInputMethods ==
    [xmodifiers |-> << >>,
     xim_servers |-> [some |-> FALSE, list |-> << >>],
     fallbacks |-> << >>]

reset_locales(locales) == [i \in 1..Len(locales) |-> [failed |-> FALSE]]

reset_nothing(p) == p

\* PotentialInputMethods::reset
reset(p) ==
    [xmodifiers |-> reset_locales(p.xmodifiers),
     xim_servers |-> [some |-> p.xim_servers.some,
                      list |-> reset_locales(p.xim_servers.list)],
     fallbacks |-> reset_locales(p.fallbacks)]

Least(S) == CHOOSE i \in S : \A j \in S : i <= j
Greatest(S) == CHOOSE i \in S : \A j \in S : i >= j

first_opened_last(n, tier, avail) ==
    LET S == {i \in 1..n : <<tier, i>> \in avail} IN
    IF S = {} THEN 0 ELSE Greatest(S)

\* a loop over the locales of one tier, left at the first XOpenIM that is not
\* null: the place of that locale, 0 if every one failed
first_opened(n, tier, avail) ==
    LET S == {i \in 1..n : <<tier, i>> \in avail} IN
    IF S = {} THEN 0 ELSE Least(S)

\* PotentialInputMethod::open_im on the locales the loop reached
tried(locales, tier, avail) ==
    LET k == first_opened(Len(locales), tier, avail) IN
    [i \in 1..Len(locales) |->
        IF k = 0 \/ i <= k
        THEN [failed |-> <<tier, i>> \notin avail]
        ELSE locales[i]]

attempted(locales, tier, avail) ==
    LET k == first_opened(Len(locales), tier, avail) IN
    [i \in 1..(IF k = 0 THEN Len(locales) ELSE k) |-> <<tier, i>>]

\* PotentialInputMethods::open_im, where avail holds the locale modifiers
\* for which XOpenIM gives an input method at this moment
open_im(p0, avail) ==
    LET p == reset(p0)
        servers == IF p.xim_servers.some THEN p.xim_servers.list ELSE << >>
        kx == first_opened(Len(p.xmodifiers), "XModifiers", avail)
        ks == first_opened(Len(servers), "XimServers", avail)
        kf == first_opened(Len(p.fallbacks), "Fallbacks", avail)
        px == [p EXCEPT !.xmodifiers = tried(p.xmodifiers, "XModifiers", avail)]
        ps == [px EXCEPT !.xim_servers.list = tried(servers, "XimServers", avail)]
        pf == [ps EXCEPT !.fallbacks = tried(p.fallbacks, "Fallbacks", avail)]
        ax == attempted(p.xmodifiers, "XModifiers", avail)
        as == attempted(servers, "XimServers", avail)
        af == attempted(p.fallbacks, "Fallbacks", avail)
    IN
    IF kx > 0
    THEN [p |-> px, result |-> "XModifiers", attempts |-> ax]
    ELSE IF ks > 0
    THEN [p |-> ps, result |-> "XimServers", attempts |-> ax \o as]
    ELSE IF kf > 0
    THEN [p |-> pf, result |-> "Fallbacks", attempts |-> ax \o as \o af]
    ELSE [p |-> pf, result |-> "Failure", attempts |-> ax \o as \o af]

\* what is recorded of the latest negotiation: the locale modifiers XOpenIM
\* was called with, in order, those of them it gave an input method for, the
\* result, and how many negotiations there were
Range(q) == {q[i] : i \in 1..Len(q)}
NoNegotiation == [opened |-> {}, attempts |-> << >>, result |-> "none", nth |-> 0]
Negotiated(o, avail) ==
    [opened |-> avail \cap Range(o.attempts), attempts |-> o.attempts,
     result |-> o.result, nth |-> negotiation.nth + 1]

\* the latest call of a method of the Ime on a window: what it returned, and
\* whether it made the native call that releases or changes a context
NoCall == [op |-> "none", window |-> 0, ret |-> "none", released |-> FALSE,
           again |-> FALSE, spot |-> NoSpot]

\* no Ime yet
ImeClosed ==
    /\ ime_phase = "closed"
    /\ potential_input_methods = NoPotentialInputMethods
    /\ im = 0
    /\ contexts = NoContexts
    /\ destroyed = FALSE
    /\ xims = << >>
    /\ instantiate_callback = FALSE
    /\ negotiation = NoNegotiation
    /\ bounce = "none"
    /\ snap = NoContexts
    /\ last = NoCall

\* ----------------------------------------------- the X11 keyboard states
\* The compose table of the locale, as libxkbcommon holds it: each sequence
\* of keysyms with the keysym and the string it composes; a sequence may
\* compose a keysym with no string, for which xkb_compose_state_get_utf8
\* gives the size 0.
ComposeTable ==
    {[seq |-> <<"dead_acute", "e">>, keysym |-> "eacute", utf8 |-> "U+00E9"],
     [seq |-> <<"dead_acute", "f">>, keysym |-> "F13", utf8 |-> ""]}

\* the keys of the keymap, named by the keysym that
\* xkb_state_key_get_one_sym gives for them
Keycodes == {"dead_acute", "e", "f", "Shift_L"}

\* xkb_state_key_get_utf8: the string of a key, "" for the size 0
key_get_utf8(key) == IF key \in {"e", "f"} THEN key ELSE ""

Devices == 1..MaxDevices
\* the modifier masks, told apart by whether they make shift active
Mods == BOOLEAN

Root == << >>
Sequences == {c.seq : c \in ComposeTable}
Composition(node) == CHOOSE c \in ComposeTable : c.seq = node
Internal ==
    UNION {{SubSeq(s, 1, n) : n \in 1..(Len(s) - 1)} : s \in Sequences}
        \ Sequences

\* the root of the table is a leaf, as the sequences' ends are
is_leaf(node) == node = Root \/ node \in Sequences

\* xkb_compose_state_new, xkb_compose_state_reset
NewComposeState == [context |-> Root, prev_leaf |-> TRUE]

xkb_keysym_is_modifier(keysym) == keysym = "Shift_L"

\* xkb_compose_state_feed
xkb_compose_state_feed(cs, keysym) ==
    IF xkb_keysym_is_modifier(keysym)
    THEN [result |-> "IGNORED", state |-> cs]
    ELSE LET from == IF is_leaf(cs.context) THEN Root ELSE cs.context
             to == Append(from, keysym)
         IN [result |-> "ACCEPTED",
             state |-> [context |-> IF to \in Sequences \cup Internal
                                    THEN to ELSE Root,
                        prev_leaf |-> is_leaf(cs.context)]]

\* xkb_compose_state_get_status
xkb_compose_state_get_status(cs) ==
    IF cs.context = Root /\ ~cs.prev_leaf THEN "CANCELLED"
    ELSE IF cs.context = Root THEN "NOTHING"
    ELSE IF ~is_leaf(cs.context) THEN "COMPOSING"
    ELSE "COMPOSED"

\* xkb_compose_state_get_one_sym
xkb_compose_state_get_one_sym(cs) ==
    IF cs.context \in Sequences THEN Composition(cs.context).keysym
    ELSE "NoSymbol"

\* xkb_compose_state_get_utf8: "" for the size 0
xkb_compose_state_get_utf8(cs) ==
    IF cs.context \in Sequences THEN Composition(cs.context).utf8 ELSE ""

\* Option<String>::None
NoUtf8 == "None"

\* XkbCompose::new
XkbCompose_new ==
    [some |-> TRUE, compose_state |-> NewComposeState,
     compose_status |-> "NOTHING"]

\* XkbState.compose is None
NoCompose ==
    [some |-> FALSE, compose_state |-> NewComposeState,
     compose_status |-> "NOTHING"]

accepted_never(result) == FALSE

\* XkbCompose::feed_keysym: the test of the feed result
accepted(result) == result = "ACCEPTED"

\* XkbCompose::feed_keysym
feed_keysym(compose, keysym) ==
    LET r == xkb_compose_state_feed(compose.compose_state, keysym) IN
    [compose EXCEPT
        !.compose_state = r.state,
        !.compose_status = IF accepted(r.result)
                           THEN xkb_compose_state_get_status(r.state)
                           ELSE compose.compose_status]

reset_skipped(compose) == compose

\* XkbCompose::reset
compose_reset(compose) ==
    [compose EXCEPT !.compose_state = NewComposeState,
                    !.compose_status = "NOTHING"]

\* XkbCompose::get_utf8: the string, and the compose it leaves
compose_get_utf8(compose) ==
    LET s == xkb_compose_state_get_utf8(compose.compose_state) IN
    IF s = ""
    THEN [utf8 |-> NoUtf8, compose |-> compose]
    ELSE [utf8 |-> s, compose |-> compose_reset(compose)]

\* no XkbState for a device
NoXkbState == [exists |-> FALSE, mods |-> FALSE, compose |-> NoCompose]

\* XkbState::new: the modifiers are those of the device at the time, and
\* compose is None if XkbCompose::new failed
XkbState_new(mods, compose_ok) ==
    [exists |-> TRUE, mods |-> mods,
     compose |-> IF compose_ok THEN XkbCompose_new ELSE NoCompose]

\* XkbState::compose_status_check
compose_status_check(state, status) ==
    state.compose.some /\ state.compose.compose_status = status

is_composing(state) == compose_status_check(state, "COMPOSING")
is_composed(state) == compose_status_check(state, "COMPOSED")

\* XkbState::feed_compose
feed_compose(state, keysym) ==
    IF state.compose.some
    THEN [state EXCEPT !.compose = feed_keysym(state.compose, keysym)]
    ELSE state

feeds_always(pressed) == TRUE

\* XkbState::get_keysym: element_state == ElementState::Pressed
feeds(pressed) == pressed

\* XkbState::get_keysym: the keysym, the state it leaves, and whether a
\* keysym was given to the compose engine
get_keysym(state, keycode, pressed, bypass_compose) ==
    IF ~bypass_compose
    THEN LET fed == feeds(pressed)
             after == IF fed THEN feed_compose(state, keycode) ELSE state
         IN [keysym |-> IF is_composed(after)
                        THEN xkb_compose_state_get_one_sym(
                                 after.compose.compose_state)
                        ELSE keycode,
             state |-> after,
             fed |-> fed /\ state.compose.some]
    ELSE [keysym |-> keycode, state |-> state, fed |-> FALSE]

\* XkbState::get_utf8_direct
get_utf8_direct(state, keycode) ==
    IF key_get_utf8(keycode) = "" THEN NoUtf8 ELSE key_get_utf8(keycode)

\* XkbState::get_utf8: the string and the state it leaves
get_utf8(state, keycode, pressed) ==
    IF pressed
    THEN IF is_composed(state)
         THEN LET r == compose_get_utf8(state.compose) IN
              [utf8 |-> r.utf8, state |-> [state EXCEPT !.compose = r.compose]]
         ELSE IF is_composing(state)
         THEN [utf8 |-> NoUtf8, state |-> state]
         ELSE [utf8 |-> get_utf8_direct(state, keycode), state |-> state]
    ELSE [utf8 |-> NoUtf8, state |-> state]

\* XkbState::get_modifiers
get_modifiers(state) == state.mods

raw_as_cooked(raw) == FALSE

\* Xkb::get_data_internal: the raw flag as it reaches get_keysym and get_utf8
bypass(raw) == raw

\* Xkb::get_data_internal on the state of the device: XkbReturnData, what was
\* fed, and the state it leaves
get_data_internal(state, keycode, pressed, raw) ==
    LET k == get_keysym(state, keycode, pressed, bypass(raw))
        u == IF ~bypass(raw) THEN get_utf8(k.state, keycode, pressed)
             ELSE [utf8 |-> NoUtf8, state |-> k.state]
    IN [keysym |-> k.keysym, modifiers |-> get_modifiers(k.state),
        utf8 |-> u.utf8, fed |-> k.fed, state |-> u.state]

\* the latest call of Xkb: what it was given and the XkbReturnData
NoData ==
    [op |-> "none", device |-> 0, keycode |-> "none", pressed |-> FALSE,
     keysym |-> "none", utf8 |-> NoUtf8, modifiers |-> FALSE, fed |-> FALSE]

\* after Xkb::new
XkbOpen ==
    /\ xkb_phase = "open"
    /\ states = [d \in Devices |-> NoXkbState]
    /\ data = NoData

\* ------------------------------------------------- the X11 frame extents
\* FrameExtents::new
FrameExtents_new(l, r, t, b) ==
    [left |-> l, right |-> r, top |-> t, bottom |-> b]

from_border_zero(border) == FrameExtents_new(0, 0, 0, 0)

\* FrameExtents::from_border
from_border(border) == FrameExtents_new(border, border, border, border)

\* what get_property gives for _NET_FRAME_EXTENTS: an error (the property
\* is not set, or of another type) or its values
PropertyError == <<"Err">>
ExtentsReplies ==
    {PropertyError, << >>, <<1, 1, 2>>, <<1, 1, 2, 1>>, <<1, 1, 2, 1, 0>>}

\* what _NET_CLIENT_LIST of the root gives for the child: the hint is not
\* supported, get_property fails, or the list is without or with the child
ClientLists == {"unsupported", "error", "without", "with"}

\* c_int and c_uint are 32 bits wide. A c_uint (and the c_ulong it widens
\* to) is written as the c_int that has the same 32 bits: n >= 0 is n, and
\* n < 0 is the value 2^32 + n, greater than every n >= 0.
I32Max == 2147483647

\* the order of c_uint
uint_ge(a, b) == IF (a < 0) = (b < 0) THEN a >= b ELSE a < 0

\* c_uint::saturating_sub
saturating_sub(a, b) == IF uint_ge(a, b) THEN a - b ELSE 0

\* c_int::saturating_sub
int_saturating_sub(a, b) ==
    IF a - b > I32Max THEN I32Max
    ELSE IF a - b < (-I32Max) - 1 THEN (-I32Max) - 1
    ELSE a - b

\* `as c_uint` of a c_int: the same 32 bits
as_c_uint(i) == i

\* what the X server and the window manager answer about a window: whether
\* the manager supports _NET_FRAME_EXTENTS and what the property holds,
\* the child that XTranslateCoordinates reports, the client list, the
\* geometry of the window, whether its parent is the root, and the geometry
\* of its outermost ancestor below the root
Answers ==
    [supported : BOOLEAN,
     extents : ExtentsReplies,
     child_is_window : BOOLEAN,
     client_list : ClientLists,
     border : 0..MaxBorder,
     width : 1..MaxSize,
     height : 1..MaxSize,
     inner_y_rel_root : 0..MaxCoord,
     parent_is_root : BOOLEAN,
     outer_width : 1..MaxSize,
     outer_height : 1..MaxSize,
     outer_y : 0..MaxCoord]

NoAnswers ==
    [supported |-> FALSE, extents |-> PropertyError, child_is_window |-> TRUE,
     client_list |-> "unsupported", border |-> 0, width |-> 1, height |-> 1,
     inner_y_rel_root |-> 0, parent_is_root |-> TRUE, outer_width |-> 1,
     outer_height |-> 1, outer_y |-> 0]

NoHeuristic ==
    [heuristic_path |-> "none", frame_extents |-> FrameExtents_new(0, 0, 0, 0),
     panic |-> "none"]

NoConversion == [op |-> "none", given |-> <<0, 0>>, out |-> <<0, 0>>]

\* no window asked about
GeoNone ==
    /\ answers = NoAnswers
    /\ heuristic = NoHeuristic
    /\ converted = NoConversion

\* ------------------------------------------------- the native events
\* NSEventModifierFlags: the four masks that translate_event tracks
Masks == {"NSShiftKeyMask", "NSControlKeyMask", "NSCommandKeyMask",
          "NSAlternateKeyMask"}

\* the field of Modifiers that goes with a mask
Modifiers_field(mask) ==
    CASE mask = "NSShiftKeyMask" -> "shift_pressed"
      [] mask = "NSControlKeyMask" -> "ctrl_pressed"
      [] mask = "NSCommandKeyMask" -> "win_pressed"
      [] mask = "NSAlternateKeyMask" -> "alt_pressed"

\* Modifiers::default()
Modifiers_default ==
    [shift_pressed |-> FALSE, ctrl_pressed |-> FALSE, win_pressed |-> FALSE,
     alt_pressed |-> FALSE]

\* key codes: A, period, left shift, and one that to_virtual_key_code does
\* not know
KeyA == 0
KeyPeriod == 47
KeyShift == 56
KeyUnknown == 999
KeyCodes == {KeyA, KeyPeriod, KeyShift, KeyUnknown}

\* to_virtual_key_code
to_virtual_key_code(code) ==
    CASE code = KeyA -> "Some(A)"
      [] code = KeyPeriod -> "Some(Period)"
      [] code = KeyShift -> "Some(LShift)"
      [] OTHER -> "None"

\* an NSEvent as translate_event reads it: its type, modifier flags, key
\* code, whether its window is one of ours, whether one of ours is the key
\* window, its subtype and whether deltaX and deltaY are not zero
NoNative ==
    [type |-> "none", flags |-> {}, keycode |-> KeyA, ours |-> FALSE,
     key_window |-> FALSE, subtype |-> "none", delta |-> <<FALSE, FALSE>>,
     phase |-> 0]

\* 21 is the type that translate_event returns early for; "undocumented" is
\* any other value that is no variant of NSEventType
PlainTypes ==
    {"nil", "21", "undocumented", "NSMouseExited", "NSEventTypePressure",
     "NSLeftMouseDown"}

NativeEvents ==
    {[NoNative EXCEPT !.type = t] : t \in PlainTypes}
      \cup {[NoNative EXCEPT !.type = "NSKeyUp", !.flags = f, !.key_window = k] :
               f \in SUBSET {"NSCommandKeyMask"}, k \in BOOLEAN}
      \cup {[NoNative EXCEPT !.type = "NSKeyDown", !.flags = f, !.keycode = c] :
               f \in SUBSET {"NSCommandKeyMask"}, c \in KeyCodes}
      \cup {[NoNative EXCEPT !.type = "NSFlagsChanged", !.flags = f,
                             !.keycode = c] :
               f \in SUBSET Masks, c \in {KeyShift, KeyUnknown}}
      \cup {[NoNative EXCEPT !.type = t, !.ours = o, !.key_window = k] :
               t \in {"NSMouseEntered", "NSScrollWheel"},
               o \in BOOLEAN, k \in BOOLEAN}
      \cup {[NoNative EXCEPT !.type = "NSMouseMoved", !.ours = o,
                             !.delta = <<dx, dy>>] :
               o \in BOOLEAN, dx \in BOOLEAN, dy \in BOOLEAN}
      \cup {[NoNative EXCEPT !.type = "NSApplicationDefined", !.subtype = s] :
               s \in {"NSApplicationActivatedEventType", "other"}}

\* UITouchPhase as handle_touches reads it: 0..4 are the phases of UIKit
TouchPhases == 0..5

\* a portable event
Portable(event, state, key) == [event |-> event, state |-> state, key |-> key]

\* what was translated last: the native event, the event returned (a
\* sequence of at most one), the events queued, the panic if any, and the
\* masks that the NSFlagsChanged arm got an event for, each with its state
NoTranslation ==
    [native |-> NoNative, returned |-> << >>, queued |-> << >>,
     panic |-> "none", given |-> {}]

\* ------------------------------------------------- the window delegate
\* NSRect: the origin is the bottom-left corner, counted from the bottom-left
\* corner of the main display
NSRect(x, y, width, height) ==
    [origin |-> <<x, y>>, size |-> <<width, height>>]

Frames ==
    {NSRect(x, y, width, height) :
        x \in 0..MaxCoord, y \in 0..MaxCoord,
        width \in 1..MaxSize, height \in 1..MaxSize}

NoFrame == NSRect(0, 0, 1, 1)

\* CGDisplay::main().pixels_high(): a display that holds every frame
pixels_high == MaxCoord + MaxSize

\* util::bottom_left_to_top_left: the y of the top-left corner, counted from
\* the top of the main display
bottom_left_to_top_left(rect) ==
    pixels_high - (rect.origin[2] + rect.size[2])

NoPosition == <<-1, -1>>    \* Option<(f64, f64)>::None

Moved(position) == [type |-> "Moved", position |-> position, size |-> <<0, 0>>]

Resized(size) == [type |-> "Resized", position |-> NoPosition, size |-> size]

\* the last notification the delegate got and the events it queued, in order
NoNotification == [op |-> "none", queued |-> << >>]

\* no native event translated, no window
CocoaNone ==
    /\ modifiers = Modifiers_default
    /\ flag_events = [m \in Masks |-> "none"]
    /\ translated = NoTranslation
    /\ frame = NoFrame
    /\ previous_position = NoPosition
    /\ last_moved = NoPosition
    /\ notified = NoNotification

\* ------------------------------------------------------- the main thread
Threads == 1..MaxThreads
MainThread == 1

Idle == [op |-> "none", pc |-> "idle", ev |-> "none", will_stop |-> FALSE,
         batch |-> << >>]

isMainThread_any(t) == TRUE

\* [NSThread isMainThread], asked by the thread t
isMainThread(t) == t = MainThread

InitHandler ==
    /\ ready = FALSE
    /\ control_flow = ControlFlowDefault
    /\ control_flow_prev = ControlFlowDefault
    /\ start_time = None
    /\ pending_events = << >>
    /\ waker = WakerStopped

InitRest ==
    /\ stop_requested = FALSE
    /\ pc = "idle"
    /\ batch = << >>
    /\ will_stop = FALSE
    /\ now = 0
    /\ next_id = 1
    /\ trace = << >>
    /\ last_cause = NoCause
    /\ handed = ControlFlowDefault
    /\ left = ControlFlowDefault
    /\ stop_at = 0
    /\ last_cleared = "none"
    /\ waker_call = "none"
    /\ panic = "none"
    /\ proxy_result = "none"
    /\ thr = [t \in Threads |-> Idle]
    /\ callback_lock = 0
    /\ control_flow_lock = 0

Init ==
    /\ InitHandler
    /\ callback = FALSE
    /\ phase = "new"
    /\ InitRest
    /\ ImeClosed
    /\ env = BareEnvironment
    /\ XkbOpen
    /\ GeoNone
    /\ CocoaNone

\* EventLoop::run: AppState::set_callback, then [NSApp run]
Run ==
    /\ phase = "new"
    /\ callback' = TRUE
    /\ phase' = "processing"
    /\ UNCHANGED <<ready, control_flow, control_flow_prev, start_time,
                   pending_events, waker, stop_requested, pc, batch, will_stop,
                   now, next_id, history, panic, proxy_result, conc>>
    /\ UNCHANGED <<ime, xkb, geo, cocoa>>

\* time passes while the run loop waits
Tick ==
    /\ phase = "waiting"
    /\ now < MaxTime
    /\ now' = now + 1
    /\ UNCHANGED <<handler, loop, next_id, history, panic, proxy_result, conc>>
    /\ UNCHANGED <<ime, xkb, geo, cocoa>>

\* AppState::launched, from applicationDidFinishLaunching
Launched ==
    /\ phase = "processing" /\ pc = "idle"
    /\ ~ready
    /\ \E w \in Writes, q \in Queues :
          /\ ready' = TRUE
          /\ waker' = WakerStarted
          /\ handle_nonuser_event(NewEvents(CauseInit), w, q)
          /\ handed' = control_flow_handed(control_flow)
    /\ UNCHANGED <<control_flow_prev, start_time, callback, loop, now, left,
                   stop_at, last_cleared, waker_call, panic, proxy_result, conc>>
    /\ UNCHANGED <<ime, xkb, geo, cocoa>>

\* AppState::wakeup, from the run-loop observer when the wait ends
Wakeup ==
    /\ phase = "waiting"
    /\ Len(trace) < MaxCalls
    /\ IF ~is_ready
       THEN /\ phase' = "processing"
            /\ UNCHANGED <<handler, next_id, trace, last_cause, handed, panic>>
       ELSE IF start_time = None
       THEN /\ phase' = "panicked"
            /\ panic' = "unwrap"
            /\ UNCHANGED <<handler, next_id, trace, last_cause, handed>>
       ELSE \E w \in Writes, q \in Queues :
            /\ control_flow_prev' = control_flow
            /\ handle_nonuser_event(
                   NewEvents(start_cause(control_flow, start_time, now)), w, q)
            /\ handed' = control_flow_handed(control_flow)
            /\ phase' = "processing"
            /\ UNCHANGED <<ready, start_time, callback, waker, panic>>
    /\ UNCHANGED <<stop_requested, pc, batch, will_stop, now, left, stop_at,
                   last_cleared, waker_call, proxy_result, conc>>
    /\ UNCHANGED <<ime, xkb, geo, cocoa>>

\* AppState::queue_event, from a window or view delegate on the main thread
QueueEvent ==
    /\ phase = "processing" /\ pc = "idle"
    /\ next_id <= MaxEvents
    /\ pending_events' = Append(pending_events, next_id)
    /\ next_id' = next_id + 1
    /\ UNCHANGED <<ready, control_flow, control_flow_prev, start_time, callback,
                   waker, loop, now, history, panic, proxy_result, conc>>
    /\ UNCHANGED <<ime, xkb, geo, cocoa>>

\* AppState::queue_events with two events
QueueEvents ==
    /\ phase = "processing" /\ pc = "idle"
    /\ next_id + 1 <= MaxEvents
    /\ pending_events' = pending_events \o <<next_id, next_id + 1>>
    /\ next_id' = next_id + 2
    /\ UNCHANGED <<ready, control_flow, control_flow_prev, start_time, callback,
                   waker, loop, now, history, panic, proxy_result, conc>>
    /\ UNCHANGED <<ime, xkb, geo, cocoa>>

\* AppState::cleared up to the loop: the ready check, the first Exit check
\* and take_events
ClearedBegin ==
    /\ phase = "processing" /\ pc = "idle"
    /\ IF ~is_ready
       THEN /\ phase' = "waiting"
            /\ last_cleared' = "not ready"
            /\ UNCHANGED <<pending_events, pc, batch, will_stop>>
       ELSE /\ will_stop' = is_control_flow_exit(control_flow)
            /\ batch' = take_events(pending_events)
            /\ pending_events' = left_by_take_events(pending_events)
            /\ pc' = "dispatch"
            /\ UNCHANGED <<phase, last_cleared>>
    /\ waker_call' = "none"
    /\ UNCHANGED <<ready, control_flow, control_flow_prev, start_time, callback,
                   waker, stop_requested, now, next_id, trace, last_cause,
                   handed, left, stop_at, panic, proxy_result, conc>>
    /\ UNCHANGED <<ime, xkb, geo, cocoa>>

\* one turn of cleared's loop
ClearedDispatch ==
    /\ pc = "dispatch" /\ batch # << >>
    /\ \E w \in Writes, q \in Queues :
          handle_nonuser_event(Queued(Head(batch)), w, q)
    /\ batch' = Tail(batch)
    /\ will_stop' = (will_stop \/ is_control_flow_exit(control_flow'))
    /\ UNCHANGED <<ready, control_flow_prev, start_time, callback, waker, phase,
                   stop_requested, pc, now, handed, left, stop_at, last_cleared,
                   waker_call, panic, proxy_result, conc>>
    /\ UNCHANGED <<ime, xkb, geo, cocoa>>

\* the rest of cleared: EventsCleared, the stop decision, the waker
ClearedFinish ==
    /\ pc = "dispatch" /\ batch = << >>
    /\ \E w \in Writes, q \in Queues :
          handle_nonuser_event(EventsCleared, w, q)
    /\ left' = control_flow'
    /\ pc' = "idle"
    /\ will_stop' = FALSE
    /\ IF will_stop \/ is_control_flow_exit(control_flow')
       THEN /\ stop_requested' = TRUE
            /\ stop_at' = IF stop_at = 0 THEN Len(trace') ELSE stop_at
            /\ last_cleared' = "stopped"
            /\ phase' = "waiting"
            /\ UNCHANGED <<start_time, waker, waker_call, panic>>
       ELSE LET call == waker_call_for(control_flow_prev, control_flow') IN
            /\ start_time' = now
            /\ IF call = "unreachable"
               THEN /\ phase' = "panicked"
                    /\ panic' = "unreachable"
                    /\ UNCHANGED <<waker, waker_call, last_cleared>>
               ELSE /\ waker' = waker_after(call, control_flow', waker)
                    /\ waker_call' = call
                    /\ last_cleared' = "continued"
                    /\ phase' = "waiting"
                    /\ UNCHANGED panic
            /\ UNCHANGED <<stop_requested, stop_at>>
    /\ UNCHANGED <<ready, control_flow_prev, callback, batch, now, handed,
                   proxy_result, conc>>
    /\ UNCHANGED <<ime, xkb, geo, cocoa>>

\* [NSApp run] returns after a stop request: AppState::exit, then exit(0)
RunReturns ==
    /\ Running /\ pc = "idle"
    /\ stop_requested
    /\ \E w \in Writes, q \in Queues :
          handle_nonuser_event(LoopDestroyed, w, q)
    /\ phase' = "exited"
    /\ UNCHANGED <<ready, control_flow_prev, start_time, callback, waker,
                   stop_requested, pc, batch, will_stop, now, handed, left,
                   stop_at, last_cleared, waker_call, panic, proxy_result, conc>>
    /\ UNCHANGED <<ime, xkb, geo, cocoa>>

\* Proxy::send_event, from any thread while the loop runs
SendEvent ==
    /\ Running
    /\ proxy_result' = "unimplemented"
    /\ UNCHANGED <<handler, loop, now, next_id, history, panic, conc>>
    /\ UNCHANGED <<ime, xkb, geo, cocoa>>

Next ==
    \/ Run
    \/ Tick
    \/ Launched
    \/ Wakeup
    \/ QueueEvent
    \/ QueueEvents
    \/ ClearedBegin
    \/ ClearedDispatch
    \/ ClearedFinish
    \/ RunReturns
    \/ SendEvent

Spec == Init /\ [][Next]_vars

\* ------------------------------------- threads calling into AppState
\* The same Handler with its locks: every thread may call launched, wakeup,
\* cleared, exit and queue_event at any time, and the user callback takes
\* time (Enter .. Leave). Here the callback asks for no timed resume.
InitConc ==
    /\ InitHandler
    /\ callback = TRUE
    /\ phase = "processing"
    /\ InitRest
    /\ ImeClosed
    /\ env = BareEnvironment
    /\ XkbOpen
    /\ GeoNone
    /\ CocoaNone

Notifications == {"launched", "wakeup", "cleared", "exit"}
UntimedWrites == {Keep, Poll, Wait, Exit}

Call(op, ev, ws, b) ==
    [op |-> op, pc |-> "want", ev |-> ev, will_stop |-> ws, batch |-> b]
Panicked(t) == [thr[t] EXCEPT !.pc = "panicked"]

can_enter_unlocked == TRUE

\* self.callback.lock() and self.control_flow.lock() of handle_nonuser_event
can_enter == callback_lock = 0 /\ control_flow_lock = 0

\* AppState::launched up to the callback
T_Launched(t) ==
    /\ thr[t].pc = "idle"
    /\ ready' = TRUE
    /\ waker' = WakerStarted
    /\ thr' = [thr EXCEPT ![t] = Call("launched", "NewEvents", FALSE, << >>)]
    /\ UNCHANGED <<control_flow, control_flow_prev, start_time, callback,
                   pending_events, loop, now, next_id, history, panic,
                   proxy_result, callback_lock, control_flow_lock>>
    /\ UNCHANGED <<ime, xkb, geo, cocoa>>

\* AppState::wakeup up to the callback
T_Wakeup(t) ==
    /\ thr[t].pc = "idle"
    /\ is_ready
    /\ IF start_time = None
       THEN /\ thr' = [thr EXCEPT ![t] = Panicked(t)]
            /\ UNCHANGED control_flow_prev
       ELSE /\ control_flow_lock = 0
            /\ control_flow_prev' = control_flow
            /\ thr' = [thr EXCEPT ![t] = Call("wakeup", "NewEvents", FALSE, << >>)]
    /\ UNCHANGED <<ready, control_flow, start_time, callback, pending_events,
                   waker, loop, now, next_id, history, panic, proxy_result,
                   callback_lock, control_flow_lock>>
    /\ UNCHANGED <<ime, xkb, geo, cocoa>>

\* AppState::cleared up to the first callback
T_Cleared(t) ==
    /\ thr[t].pc = "idle"
    /\ is_ready
    /\ control_flow_lock = 0
    /\ pending_events' = left_by_take_events(pending_events)
    /\ thr' = [thr EXCEPT ![t] =
                  Call("cleared",
                       IF take_events(pending_events) # << >>
                       THEN "Queued" ELSE "EventsCleared",
                       is_control_flow_exit(control_flow),
                       take_events(pending_events))]
    /\ UNCHANGED <<ready, control_flow, control_flow_prev, start_time, callback,
                   waker, loop, now, next_id, history, panic, proxy_result,
                   callback_lock, control_flow_lock>>
    /\ UNCHANGED <<ime, xkb, geo, cocoa>>

\* AppState::exit up to the callback
T_Exit(t) ==
    /\ thr[t].pc = "idle"
    /\ thr' = [thr EXCEPT ![t] = Call("exit", "LoopDestroyed", FALSE, << >>)]
    /\ UNCHANGED <<handler, loop, now, next_id, history, panic, proxy_result,
                   callback_lock, control_flow_lock>>
    /\ UNCHANGED <<ime, xkb, geo, cocoa>>

\* AppState::queue_event: it panics off the main thread
T_QueueEvent(t) ==
    /\ \/ thr[t].pc = "idle"
       \/ thr[t].pc = "in_callback" /\ t = MainThread
    /\ next_id <= MaxEvents
    /\ IF isMainThread(t)
       THEN /\ pending_events' = Append(pending_events, next_id)
            /\ next_id' = next_id + 1
            /\ UNCHANGED thr
       ELSE /\ thr' = [thr EXCEPT ![t] = Panicked(t)]
            /\ UNCHANGED <<pending_events, next_id>>
    /\ UNCHANGED <<ready, control_flow, control_flow_prev, start_time, callback,
                   waker, loop, now, history, panic, proxy_result,
                   callback_lock, control_flow_lock>>
    /\ UNCHANGED <<ime, xkb, geo, cocoa>>

\* handle_nonuser_event: both locks taken, the callback starts
T_Enter(t) ==
    /\ thr[t].pc = "want"
    /\ can_enter
    /\ callback_lock' = t
    /\ control_flow_lock' = t
    /\ thr' = [thr EXCEPT ![t].pc = "in_callback"]
    /\ UNCHANGED <<handler, loop, now, next_id, history, panic, proxy_result>>
    /\ UNCHANGED <<ime, xkb, geo, cocoa>>

\* handle_nonuser_event: the callback returns, both locks are dropped
T_Leave(t) ==
    /\ thr[t].pc = "in_callback"
    /\ \E w \in UntimedWrites : control_flow' = written(control_flow, w)
    /\ callback_lock' = 0
    /\ control_flow_lock' = 0
    /\ thr' = [thr EXCEPT ![t] =
                  IF thr[t].op = "cleared"
                  THEN [thr[t] EXCEPT !.pc = "check"]
                  ELSE Idle]
    /\ UNCHANGED <<ready, control_flow_prev, start_time, callback,
                   pending_events, waker, loop, now, next_id, history, panic,
                   proxy_result>>
    /\ UNCHANGED <<ime, xkb, geo, cocoa>>

\* AppState::cleared after a callback: the Exit check, then the next event,
\* EventsCleared, or the stop decision and the waker
T_Check(t) ==
    LET ws == thr[t].will_stop \/ is_control_flow_exit(control_flow)
        rest == Tail(thr[t].batch)
        call == waker_call_for(control_flow_prev, control_flow)
    IN
    /\ thr[t].pc = "check"
    /\ control_flow_lock = 0
    /\ IF thr[t].ev = "Queued"
       THEN /\ thr' = [thr EXCEPT ![t] =
                          Call("cleared",
                               IF rest # << >> THEN "Queued" ELSE "EventsCleared",
                               ws, rest)]
            /\ UNCHANGED <<start_time, waker, stop_requested>>
       ELSE IF ws
       THEN /\ stop_requested' = TRUE
            /\ thr' = [thr EXCEPT ![t] = Idle]
            /\ UNCHANGED <<start_time, waker>>
       ELSE /\ start_time' = now
            /\ waker' = waker_after(call, control_flow, waker)
            /\ thr' = [thr EXCEPT ![t] =
                          IF call = "unreachable" THEN Panicked(t) ELSE Idle]
            /\ UNCHANGED stop_requested
    /\ UNCHANGED <<ready, control_flow, control_flow_prev, callback,
                   pending_events, phase, pc, batch, will_stop, now, next_id,
                   history, panic, proxy_result, callback_lock,
                   control_flow_lock>>
    /\ UNCHANGED <<ime, xkb, geo, cocoa>>

NextConc ==
    \E t \in Threads :
        \/ T_Launched(t)
        \/ T_Wakeup(t)
        \/ T_Cleared(t)
        \/ T_Exit(t)
        \/ T_QueueEvent(t)
        \/ T_Enter(t)
        \/ T_Leave(t)
        \/ T_Check(t)

SpecConc == InitConc /\ [][NextConc]_vars

\* ------------------------------------------------------------ Ime
\* a native XIM as XOpenIM returns it: open, with no destroy callback, and
\* with no XIC that nothing holds
Xim == [state |-> "open", destroy_callback |-> FALSE, unheld |-> FALSE]

\* XConnection::check_errors gives Ok or the latest X error
check_errors(xerror) == IF xerror THEN "XError" ELSE "Ok"

Called(op, window, ret, released) ==
    [op |-> op, window |-> window, ret |-> ret, released |-> released,
     again |-> last.op = op /\ last.window = window, spot |-> NoSpot]

\* a call that reaches a context ends the comparison with the registry as
\* it was when the server went away
touched == IF bounce \in {"destroyed", "rebuilt"} THEN "none" ELSE bounce
forgotten == IF bounce \in {"destroyed", "rebuilt"} THEN NoContexts ELSE snap

\* an ImeContext is dropped with no XDestroyIC: its XIC stays, held by nothing
unheld_after(ims, entry) ==
    IF entry.some /\ ims[entry.ic.im].state = "open"
    THEN [ims EXCEPT ![entry.ic.im].unheld = TRUE]
    ELSE ims

is_destroyed_never == FALSE

\* Ime::is_destroyed
is_destroyed == destroyed

\* Ime::get_context: Some(ic) or None
get_context(window) ==
    IF is_destroyed THEN [some |-> FALSE, ic |-> NoXic]
    ELSE IF contexts[window].key /\ contexts[window].some
    THEN [some |-> TRUE, ic |-> contexts[window].ic]
    ELSE [some |-> FALSE, ic |-> NoXic]

\* Ime::new
Ime_new ==
    /\ ime_phase = "closed"
    /\ \E avail \in Availabilities, xerror \in BOOLEAN :
          LET o == open_im(PotentialInputMethods_new(env.xmodifiers, env.servers),
                           avail)
          IN
          /\ potential_input_methods' = o.p
          /\ negotiation' = Negotiated(o, avail)
          /\ IF o.result = "Failure"
             THEN /\ ime_phase' = "failed"
                  /\ UNCHANGED <<im, xims>>
             ELSE IF xerror
             THEN /\ ime_phase' = "failed"
                  /\ xims' = Append(xims, Xim)
                  /\ UNCHANGED im
             ELSE /\ ime_phase' = "open"
                  /\ xims' = Append(xims, [Xim EXCEPT !.destroy_callback = TRUE])
                  /\ im' = Len(xims) + 1
    /\ UNCHANGED <<contexts, destroyed, instantiate_callback, bounce, snap,
                   last, env>>
    /\ UNCHANGED <<appkit, xkb, geo, cocoa>>

\* what XCreateIC and the check_errors call after it give
Natives == {"ok", "null", "xerror"}

\* Ime::create_context
CreateContext ==
    /\ ime_phase = "open"
    /\ \E window \in Windows, native \in Natives :
          IF is_destroyed
          THEN /\ contexts' = [contexts EXCEPT ![window] = NoContext]
               /\ last' = Called("create_context", window, "Ok", FALSE)
               /\ bounce' = touched
               /\ snap' = forgotten
               /\ UNCHANGED xims
          ELSE CASE native = "null" ->
                      /\ last' = Called("create_context", window, "Null", FALSE)
                      /\ UNCHANGED <<contexts, xims, bounce, snap>>
                 [] native = "xerror" ->
                      /\ xims' = [xims EXCEPT ![im].unheld = TRUE]
                      /\ last' = Called("create_context", window, "XError", FALSE)
                      /\ UNCHANGED <<contexts, bounce, snap>>
                 [] native = "ok" ->
                      /\ contexts' = [contexts EXCEPT ![window] =
                                         ImeContext(Xic(im, NoSpot), Origin)]
                      /\ xims' = unheld_after(xims, contexts[window])
                      /\ last' = Called("create_context", window, "Ok", FALSE)
                      /\ bounce' = touched
                      /\ snap' = forgotten
    /\ UNCHANGED <<ime_phase, potential_input_methods, im, destroyed,
                   instantiate_callback, negotiation, env>>
    /\ UNCHANGED <<appkit, xkb, geo, cocoa>>

removed_kept(c, window) == c

\* HashMap::remove
removed(c, window) == [c EXCEPT ![window] = Vacant]

\* Ime::destroy_context
DestroyContext ==
    /\ ime_phase = "open"
    /\ \E window \in Windows, xerror \in BOOLEAN :
          IF is_destroyed
          THEN /\ last' = Called("destroy_context", window, "Ok", FALSE)
               /\ UNCHANGED <<contexts, bounce, snap>>
          ELSE IF contexts[window].key /\ contexts[window].some
          THEN /\ contexts' = removed(contexts, window)
               /\ last' = Called("destroy_context", window, check_errors(xerror),
                                 TRUE)
               /\ bounce' = touched
               /\ snap' = forgotten
          ELSE /\ contexts' = removed(contexts, window)
               /\ last' = Called("destroy_context", window, "Ok", FALSE)
               /\ UNCHANGED <<bounce, snap>>
    /\ UNCHANGED <<ime_phase, potential_input_methods, im, destroyed, xims,
                   instantiate_callback, negotiation, env>>
    /\ UNCHANGED <<appkit, xkb, geo, cocoa>>

some_context_any(window) == TRUE

\* if let Some(&mut Some(ref mut context)) = contexts.get_mut(&window), after
\* the early return on is_destroyed
some_context(window) ==
    ~is_destroyed /\ contexts[window].key /\ contexts[window].some

\* Ime::focus and Ime::unfocus, with ImeContext::focus and unfocus: Ok is
\* Ok(()), and released tells whether XSetICFocus or XUnsetICFocus was called
SetFocus(op, to) ==
    /\ ime_phase = "open"
    /\ \E window \in Windows, xerror \in BOOLEAN :
          IF some_context(window)
          THEN /\ contexts' = [contexts EXCEPT ![window].ic.focused = to]
               /\ last' = Called(op, window, check_errors(xerror), TRUE)
               /\ bounce' = touched
               /\ snap' = forgotten
          ELSE /\ last' = Called(op, window, "Ok", FALSE)
               /\ UNCHANGED <<contexts, bounce, snap>>
    /\ UNCHANGED <<ime_phase, potential_input_methods, im, destroyed, xims,
                   instantiate_callback, negotiation, env>>
    /\ UNCHANGED <<appkit, xkb, geo, cocoa>>

Focus == SetFocus("focus", TRUE)

Unfocus == SetFocus("unfocus", FALSE)

same_spot_never(context, spot) == FALSE

\* ImeContext::set_spot: the early return
same_spot(context, spot) ==
    context.ic_spot.x = spot.x /\ context.ic_spot.y = spot.y

\* Ime::send_xim_spot, with ImeContext::set_spot; it returns nothing,
\* released tells whether XSetICValues was called, and spot is the spot asked
\* for
SendXimSpot ==
    /\ ime_phase = "open"
    /\ \E window \in Windows, spot \in Spots :
          IF some_context(window) /\ ~same_spot(contexts[window], spot)
          THEN /\ contexts' = [contexts EXCEPT ![window].ic_spot = spot,
                                               ![window].ic.spot = spot]
               /\ last' = [Called("send_xim_spot", window, "none", TRUE)
                              EXCEPT !.spot = spot]
               /\ bounce' = touched
               /\ snap' = forgotten
          ELSE /\ last' = [Called("send_xim_spot", window, "none", FALSE)
                              EXCEPT !.spot = spot]
               /\ UNCHANGED <<contexts, bounce, snap>>
    /\ UNCHANGED <<ime_phase, potential_input_methods, im, destroyed, xims,
                   instantiate_callback, negotiation, env>>
    /\ UNCHANGED <<appkit, xkb, geo, cocoa>>

replace_spot_dropped(old_context) == NoSpot

\* replace_im: the spot the new context of a window is created with
replace_spot(old_context) ==
    IF old_context.some THEN old_context.ic_spot ELSE NoSpot

recorded_origin(ic_spot) == Origin

\* ImeContext::new: the spot it records
recorded_spot(ic_spot) == IF ic_spot = NoSpot THEN Origin ELSE ic_spot

\* the old contexts are dropped with no XDestroyIC
unheld_by_replace(ims, c) ==
    IF im > 0 /\ ims[im].state = "open" /\ \E w \in Keys(c) : c[w].some
    THEN [ims EXCEPT ![im].unheld = TRUE]
    ELSE ims

\* replace_im on the registry c, the native input methods being ims: the
\* values it leaves, and the panic that ended it if one did; ic_ok tells
\* whether XCreateIC gives contexts on the new input method.
replace_im(p, c, ims, avail, ic_ok) ==
    LET o == open_im(p, avail)
        new_im == Len(ims) + 1
    IN
    IF o.result = "Failure"
    THEN [panic |-> "Failed to reopen input method", o |-> o, im |-> im,
          contexts |-> c, xims |-> ims]
    ELSE IF Keys(c) # {} /\ ~ic_ok
    THEN [panic |-> "Failed to reinitialize input context", o |-> o,
          im |-> new_im, contexts |-> c, xims |-> Append(ims, Xim)]
    ELSE [panic |-> "none", o |-> o, im |-> new_im,
          contexts |-> [w \in Windows |->
                           IF c[w].key
                           THEN ImeContext(Xic(new_im, replace_spot(c[w])),
                                           recorded_spot(replace_spot(c[w])))
                           ELSE c[w]],
          xims |-> Append(unheld_by_replace(ims, c), Xim)]

\* the server closes the input method, Xlib frees its contexts
server_closed(ims, xim) ==
    [ims EXCEPT ![xim].state = "destroyed", ![xim].unheld = FALSE]

\* xim_destroy_callback: the server ends the input method that the Ime holds
\* and that has the callback registered
ServerDestroy ==
    /\ ime_phase = "open"
    /\ xims[im].state = "open" /\ xims[im].destroy_callback
    /\ Len(xims) < MaxXims
    /\ \E avail \in Availabilities, ic_ok \in BOOLEAN :
          LET r == replace_im(potential_input_methods, contexts,
                              server_closed(xims, im), avail, ic_ok)
          IN
          /\ snap' = IF r.panic = "none" THEN contexts ELSE NoContexts
          /\ instantiate_callback' = TRUE
          /\ potential_input_methods' = r.o.p
          /\ negotiation' = Negotiated(r.o, avail)
          /\ im' = r.im
          /\ contexts' = r.contexts
          /\ xims' = r.xims
          /\ destroyed' = (r.panic # "none")
          /\ ime_phase' = IF r.panic = "none" THEN "open" ELSE "panicked"
          /\ bounce' = IF r.panic = "none" THEN "destroyed" ELSE "none"
          /\ last' = NoCall
    /\ UNCHANGED env
    /\ UNCHANGED <<appkit, xkb, geo, cocoa>>

\* xim_instantiate_callback: an input method for the locale modifiers in use
\* has become available
ServerInstantiate ==
    /\ ime_phase = "open"
    /\ instantiate_callback
    /\ Len(xims) < MaxXims
    /\ \E avail \in Availabilities, ic_ok \in BOOLEAN, xerror \in BOOLEAN :
          LET r == replace_im(potential_input_methods, contexts, xims, avail,
                              ic_ok)
              failed == IF r.panic # "none" THEN r.panic
                        ELSE IF xerror
                        THEN "Failed to set input method destruction callback"
                        ELSE "none"
          IN
          /\ instantiate_callback' = FALSE
          /\ potential_input_methods' = r.o.p
          /\ negotiation' = Negotiated(r.o, avail)
          /\ im' = r.im
          /\ contexts' = r.contexts
          /\ xims' = IF failed = "none"
                     THEN [r.xims EXCEPT ![r.im].destroy_callback = TRUE]
                     ELSE r.xims
          /\ destroyed' = IF r.panic = "none" THEN FALSE ELSE destroyed
          /\ ime_phase' = IF failed = "none" THEN "open" ELSE "panicked"
          /\ bounce' = IF failed = "none" /\ bounce = "destroyed"
                       THEN "rebuilt" ELSE "none"
          /\ snap' = IF failed = "none" /\ bounce = "destroyed"
                     THEN snap ELSE NoContexts
          /\ last' = NoCall
    /\ UNCHANGED env
    /\ UNCHANGED <<appkit, xkb, geo, cocoa>>

\* Drop for Ime
ImeDrop ==
    /\ ime_phase = "open"
    /\ \E xerror \in BOOLEAN :
          IF is_destroyed
          THEN /\ ime_phase' = "dropped"
               /\ UNCHANGED <<xims, contexts>>
          ELSE /\ contexts' = [w \in Windows |->
                                  IF contexts[w].some
                                  THEN [contexts[w] EXCEPT !.ic = NoXic]
                                  ELSE contexts[w]]
               /\ xims' = [xims EXCEPT ![im].state = "closed"]
               /\ ime_phase' = IF xerror THEN "panicked" ELSE "dropped"
    /\ last' = NoCall
    /\ UNCHANGED <<potential_input_methods, im, destroyed, instantiate_callback,
                   negotiation, bounce, snap, env>>
    /\ UNCHANGED <<appkit, xkb, geo, cocoa>>

NextIme ==
    \/ Ime_new
    \/ CreateContext
    \/ DestroyContext
    \/ Focus
    \/ Unfocus
    \/ SendXimSpot
    \/ ServerDestroy
    \/ ServerInstantiate
    \/ ImeDrop

\* The Ime in a process whose XMODIFIERS names a server that XIM_SERVERS
\* advertises; no event loop is run.
InitIme ==
    /\ InitHandler
    /\ callback = FALSE
    /\ phase = "new"
    /\ InitRest
    /\ ImeClosed
    /\ env = ServedEnvironment
    /\ XkbOpen
    /\ GeoNone
    /\ CocoaNone

SpecIme == InitIme /\ [][NextIme]_vars

\* The server of the input method that the Ime holds goes away while the
\* input method has no destroy callback (replace_im registers none; only
\* Ime::new and xim_instantiate_callback do): Xlib frees the input method and
\* its contexts and calls nothing. The fallback locale modifiers name no
\* server.
ServerGone ==
    /\ ime_phase = "open"
    /\ xims[im].state = "open" /\ ~xims[im].destroy_callback
    /\ negotiation.result \in {"XModifiers", "XimServers"}
    /\ xims' = server_closed(xims, im)
    /\ last' = NoCall
    /\ UNCHANGED <<ime_phase, potential_input_methods, im, contexts, destroyed,
                   instantiate_callback, negotiation, bounce, snap, env>>
    /\ UNCHANGED <<appkit, xkb, geo, cocoa>>

NextRelease ==
    \/ NextIme
    \/ ServerGone

SpecRelease == InitIme /\ [][NextRelease]_vars


\* The Ime with no window asking for a context, in every environment
InitNegotiate ==
    /\ InitHandler
    /\ callback = FALSE
    /\ phase = "new"
    /\ InitRest
    /\ ImeClosed
    /\ env \in Environments
    /\ XkbOpen
    /\ GeoNone
    /\ CocoaNone

NextNegotiate ==
    \/ Ime_new
    \/ ServerDestroy
    \/ ServerInstantiate
    \/ ImeDrop

SpecNegotiate == InitNegotiate /\ [][NextNegotiate]_vars

\* The calls on the registry from every state of an Ime: its input method
\* open or ended by the server, every window with no entry, with a None
\* entry (if ended) or with a context.
SpotPairs == {<<Origin, NoSpot>>} \cup {<<s, s>> : s \in Spots}
Entries(ended) ==
    {Vacant} \cup (IF ended THEN {NoContext} ELSE {}) \cup
    {[ImeContext(Xic(1, sn[2]), sn[1]) EXCEPT !.ic.focused = f] :
        sn \in SpotPairs, f \in BOOLEAN}

InitCtx ==
    /\ InitHandler
    /\ callback = FALSE
    /\ phase = "new"
    /\ InitRest
    /\ env = ServedEnvironment
    /\ ime_phase = "open"
    /\ destroyed \in BOOLEAN
    /\ im = 1
    /\ xims = <<[Xim EXCEPT !.state = IF destroyed THEN "destroyed" ELSE "open",
                            !.destroy_callback = TRUE]>>
    /\ potential_input_methods =
          open_im(PotentialInputMethods_new(env.xmodifiers, env.servers),
                  {<<"XModifiers", 1>>}).p
    /\ negotiation = [opened |-> {<<"XModifiers", 1>>},
                      attempts |-> <<(<<"XModifiers", 1>>)>>,
                      result |-> "XModifiers", nth |-> 1]
    /\ contexts \in [Windows -> Entries(destroyed)]
    /\ instantiate_callback = destroyed
    /\ bounce = "none"
    /\ snap = NoContexts
    /\ last = NoCall
    /\ XkbOpen
    /\ GeoNone
    /\ CocoaNone

NextCtx ==
    \/ CreateContext
    \/ DestroyContext
    \/ Focus
    \/ Unfocus
    \/ SendXimSpot

SpecCtx == InitCtx /\ [][NextCtx]_vars

\* The preedit spots over the rebuilds of the input method.
NextReplay ==
    \/ CreateContext
    \/ SendXimSpot
    \/ ServerDestroy
    \/ ServerInstantiate

SpecReplay == InitCtx /\ [][NextReplay]_vars

\* ------------------------------------------- the thread that owns the loop
\* Threads construct the event loop and queue events with no loop running.
Returned(op) == [Idle EXCEPT !.op = op]
Rejected(op) == [Idle EXCEPT !.op = op, !.pc = "panicked"]

EventIds == 1..MaxEvents

\* EventLoop::new
O_New(t) ==
    /\ thr[t].pc = "idle"
    /\ IF isMainThread(t)
       THEN /\ phase = "none"
            /\ phase' = "new"
            /\ thr' = [thr EXCEPT ![t] = Returned("new")]
       ELSE /\ thr' = [thr EXCEPT ![t] = Rejected("new")]
            /\ UNCHANGED phase
    /\ UNCHANGED <<handler, stop_requested, pc, batch, will_stop, now, next_id,
                   history, panic, proxy_result, callback_lock,
                   control_flow_lock>>
    /\ UNCHANGED <<ime, xkb, geo, cocoa>>

\* AppState::queue_event
O_QueueEvent(t) ==
    /\ thr[t].pc = "idle"
    /\ \E event \in EventIds :
          IF isMainThread(t)
          THEN /\ Len(pending_events) < MaxPending
               /\ pending_events' = Append(pending_events, event)
               /\ thr' = [thr EXCEPT ![t] = Returned("queue_event")]
          ELSE /\ thr' = [thr EXCEPT ![t] = Rejected("queue_event")]
               /\ UNCHANGED pending_events
    /\ UNCHANGED <<ready, control_flow, control_flow_prev, start_time, callback,
                   waker, loop, now, next_id, history, panic, proxy_result,
                   callback_lock, control_flow_lock>>
    /\ UNCHANGED <<ime, xkb, geo, cocoa>>

\* AppState::queue_events, with two events
O_QueueEvents(t) ==
    /\ thr[t].pc = "idle"
    /\ \E first \in EventIds, second \in EventIds :
          IF isMainThread(t)
          THEN /\ Len(pending_events) + 2 <= MaxPending
               /\ pending_events' = pending_events \o <<first, second>>
               /\ thr' = [thr EXCEPT ![t] = Returned("queue_events")]
          ELSE /\ thr' = [thr EXCEPT ![t] = Rejected("queue_events")]
               /\ UNCHANGED pending_events
    /\ UNCHANGED <<ready, control_flow, control_flow_prev, start_time, callback,
                   waker, loop, now, next_id, history, panic, proxy_result,
                   callback_lock, control_flow_lock>>
    /\ UNCHANGED <<ime, xkb, geo, cocoa>>

InitOwner ==
    /\ InitHandler
    /\ callback = FALSE
    /\ phase = "none"
    /\ InitRest
    /\ ImeClosed
    /\ env = BareEnvironment
    /\ XkbOpen
    /\ GeoNone
    /\ CocoaNone

NextOwner ==
    \E t \in Threads :
        \/ O_New(t)
        \/ O_QueueEvent(t)
        \/ O_QueueEvents(t)

SpecOwner == InitOwner /\ [][NextOwner]_vars

TypeOK ==
    /\ ready \in BOOLEAN
    /\ control_flow \in ControlFlow
    /\ control_flow_prev \in ControlFlow
    /\ start_time \in Times \cup {None}
    /\ phase \in {"new", "processing", "waiting", "exited", "panicked"}
    /\ pc \in {"idle", "dispatch"}

\* ------------------------------------------------------------ Xkb
created_anew(s, device, fresh) == [s EXCEPT ![device] = fresh]

\* Xkb::get_or_create_state with Xkb::create_state: the states with one for
\* the device
get_or_create_state(s, device, fresh) ==
    IF ~s[device].exists THEN [s EXCEPT ![device] = fresh] ELSE s

\* what XkbState::new can give for a device that has no state
Fresh(device) ==
    IF states[device].exists THEN {NoXkbState}
    ELSE {XkbState_new(mods, compose_ok) :
             mods \in Mods, compose_ok \in BOOLEAN}

\* XkbState::new gave an error: the expect of the caller panics
CreateFails(op, device) ==
    /\ xkb_phase = "open"
    /\ ~states[device].exists
    /\ xkb_phase' = "panicked"
    /\ data' = [NoData EXCEPT !.op = op, !.device = device]
    /\ UNCHANGED states

GetDataInternal(op, raw) ==
    /\ xkb_phase = "open"
    /\ \E device \in Devices, keycode \in Keycodes, pressed \in BOOLEAN :
       \E fresh \in Fresh(device) :
          LET s == get_or_create_state(states, device, fresh)
              r == get_data_internal(s[device], keycode, pressed, raw)
          IN
          /\ states' = [s EXCEPT ![device] = r.state]
          /\ data' = [op |-> op, device |-> device, keycode |-> keycode,
                      pressed |-> pressed, keysym |-> r.keysym,
                      utf8 |-> r.utf8, modifiers |-> r.modifiers,
                      fed |-> r.fed]
    /\ UNCHANGED xkb_phase

\* Xkb::get_data
GetData ==
    /\ \/ GetDataInternal("get_data", FALSE)
       \/ \E device \in Devices : CreateFails("get_data", device)
    /\ UNCHANGED <<appkit, ime, geo, cocoa>>

\* Xkb::get_data_raw
GetDataRaw ==
    /\ \/ GetDataInternal("get_data_raw", TRUE)
       \/ \E device \in Devices : CreateFails("get_data_raw", device)
    /\ UNCHANGED <<appkit, ime, geo, cocoa>>

\* Xkb::update, with XkbState::update
Update ==
    /\ \/ /\ xkb_phase = "open"
          /\ \E device \in Devices, mods \in Mods :
             \E fresh \in Fresh(device) :
                LET s == get_or_create_state(states, device, fresh)
                IN
                /\ states' = [s EXCEPT ![device].mods = mods]
                /\ data' = [NoData EXCEPT !.op = "update", !.device = device,
                                          !.modifiers = mods]
          /\ UNCHANGED xkb_phase
       \/ \E device \in Devices : CreateFails("update", device)
    /\ UNCHANGED <<appkit, ime, geo, cocoa>>

NextXkb ==
    \/ GetData
    \/ GetDataRaw
    \/ Update

InitXkb ==
    /\ InitHandler
    /\ callback = FALSE
    /\ phase = "new"
    /\ InitRest
    /\ ImeClosed
    /\ env = BareEnvironment
    /\ XkbOpen
    /\ GeoNone
    /\ CocoaNone

SpecXkb == InitXkb /\ [][NextXkb]_vars

\* ------------------------------------------------------------ geometry
\* hint_is_supported(atom): whether the window manager lists the hint among
\* those it supports
hint_is_supported(supported) == supported

\* get_frame_extents: extents.len() >= 4
extents_len(extents) == Len(extents) >= 4

\* get_frame_extents: Some(extents) as a sequence of one, None as << >>
get_frame_extents(a) ==
    IF ~hint_is_supported(a.supported) THEN << >>
    ELSE IF a.extents = PropertyError THEN << >>
    ELSE IF extents_len(a.extents)
    THEN <<FrameExtents_new(a.extents[1], a.extents[2], a.extents[3],
                            a.extents[4])>>
    ELSE << >>

\* is_top_level(child): "None", or Some of whether the list has the child
is_top_level(a) ==
    CASE ~hint_is_supported(a.client_list # "unsupported") -> "None"
      [] a.client_list = "error" -> "None"
      [] a.client_list = "with" -> "Some(true)"
      [] a.client_list = "without" -> "Some(false)"

\* get_frame_extents_heuristic: nested
nested(a) == ~(a.child_is_window \/ is_top_level(a) = "Some(true)")

\* climb_hierarchy and get_geometry of the outer window: the outer window
\* of a window whose parent is the root is the window itself
outer_geometry(a) ==
    IF a.parent_is_root
    THEN [y_rel_parent |-> a.inner_y_rel_root, width |-> a.width,
          height |-> a.height]
    ELSE [y_rel_parent |-> a.outer_y, width |-> a.outer_width,
          height |-> a.outer_height]

\* get_frame_extents_heuristic, no call to the server failing
get_frame_extents_heuristic(a) ==
    IF get_frame_extents(a) # << >>
    THEN [heuristic_path |-> "Supported",
          frame_extents |-> IF ~nested(a) THEN FrameExtents_new(0, 0, 0, 0)
                            ELSE get_frame_extents(a)[1],
          panic |-> "none"]
    ELSE IF nested(a)
    THEN LET outer == outer_geometry(a)
             diff_x == saturating_sub(outer.width, a.width)
             diff_y == saturating_sub(outer.height, a.height)
             offset_y == as_c_uint(int_saturating_sub(a.inner_y_rel_root,
                                                      outer.y_rel_parent))
             half_x == diff_x \div 2
         IN [heuristic_path |-> "UnsupportedNested",
             frame_extents |-> FrameExtents_new(half_x, half_x, offset_y,
                                   saturating_sub(diff_y, offset_y)),
             panic |-> "none"]
    ELSE [heuristic_path |-> "UnsupportedBordered",
          frame_extents |-> from_border(a.border),
          panic |-> "none"]

\* the calls of get_frame_extents_heuristic that end in expect, in the order
\* they are made on the path taken
Expects(a) ==
    {"Failed to translate window coordinates",
     "Failed to get inner window geometry",
     "Failed to call XInternAtom (_NET_FRAME_EXTENTS)"}
      \cup (IF ~a.child_is_window
            THEN {"Failed to call XInternAtom (_NET_CLIENT_LIST)"} ELSE {})
      \cup (IF get_frame_extents(a) = << >> /\ nested(a)
            THEN {"Failed to climb window hierarchy",
                  "Failed to get outer window geometry"}
            ELSE {})

\* get_frame_extents_heuristic(xconn, window, root)
GetFrameExtentsHeuristic ==
    /\ heuristic = NoHeuristic
    /\ \/ heuristic' = get_frame_extents_heuristic(answers)
       \/ \E failed \in Expects(answers) :
             heuristic' = [NoHeuristic EXCEPT !.panic = failed]
    /\ UNCHANGED <<answers, converted>>
    /\ UNCHANGED <<appkit, ime, xkb, cocoa>>

\* `as i32` of a c_ulong: the low 32 bits
as_i32(v) == v

inner_pos_unmoved(h, x, y) == <<x, y>>

\* FrameExtentsHeuristic::inner_pos_to_outer
inner_pos_to_outer(h, x, y) ==
    IF h.heuristic_path # "UnsupportedBordered"
    THEN <<x - as_i32(h.frame_extents.left), y - as_i32(h.frame_extents.top)>>
    ELSE <<x, y>>

\* the sum modulo 2^32
wrapping_add(a, b) ==
    IF a > 0 /\ b > I32Max - a
    THEN (a - I32Max - 1) + (b - I32Max - 1)
    ELSE IF a < 0 /\ b < ((-I32Max) - 1) - a
    THEN (a + I32Max + 1) + (b + I32Max + 1)
    ELSE a + b

\* c_ulong::saturating_add of two values below 2^32, then `as u32`, a
\* c_ulong being 64 bits wide: the sum modulo 2^32
ulong_add_as_u32(a, b) == wrapping_add(a, b)

\* u32::saturating_add: u32::MAX is written -1
saturating_add(a, b) ==
    IF a >= 0 /\ b >= 0 THEN wrapping_add(a, b)
    ELSE IF a < 0 /\ b < 0 THEN -1
    ELSE IF a + b >= 0 THEN -1
    ELSE a + b

\* FrameExtentsHeuristic::inner_size_to_outer
inner_size_to_outer(h, width, height) ==
    <<saturating_add(width, ulong_add_as_u32(h.frame_extents.left,
                                             h.frame_extents.right)),
      saturating_add(height, ulong_add_as_u32(h.frame_extents.top,
                                              h.frame_extents.bottom))>>

\* Window2::get_position, the frame extents being cached and the inner
\* position being (x, y)
GetPosition ==
    /\ heuristic.heuristic_path # "none"
    /\ converted = NoConversion
    /\ \E x \in 0..MaxCoord, y \in 0..MaxCoord :
          converted' = [op |-> "get_position", given |-> <<x, y>>,
                        out |-> inner_pos_to_outer(heuristic, x, y)]
    /\ UNCHANGED <<answers, heuristic>>
    /\ UNCHANGED <<appkit, ime, xkb, cocoa>>

\* Window2::get_outer_size, the frame extents being cached and the inner
\* size being that of the window
GetOuterSize ==
    /\ heuristic.heuristic_path # "none"
    /\ converted = NoConversion
    /\ converted' = [op |-> "get_outer_size",
                     given |-> <<answers.width, answers.height>>,
                     out |-> inner_size_to_outer(heuristic, answers.width,
                                                 answers.height)]
    /\ UNCHANGED <<answers, heuristic>>
    /\ UNCHANGED <<appkit, ime, xkb, cocoa>>

NextGeo ==
    \/ GetFrameExtentsHeuristic
    \/ GetPosition
    \/ GetOuterSize

\* the answers to the requests that get_frame_extents_heuristic makes: a
\* request it does not make has the answer of NoAnswers, and the window that
\* has a parent other than the root is not a child of the root
Answered(a) ==
    /\ ~a.supported => a.extents = NoAnswers.extents
    /\ a.child_is_window => a.client_list = NoAnswers.client_list
    /\ ~a.parent_is_root => ~a.child_is_window
    /\ a.parent_is_root \/ ~(get_frame_extents(a) = << >> /\ nested(a)) =>
          /\ a.outer_width = NoAnswers.outer_width
          /\ a.outer_height = NoAnswers.outer_height
          /\ a.outer_y = NoAnswers.outer_y

InitGeo ==
    /\ InitHandler
    /\ callback = FALSE
    /\ phase = "new"
    /\ InitRest
    /\ ImeClosed
    /\ env = BareEnvironment
    /\ XkbOpen
    /\ answers \in {a \in Answers : Answered(a)}
    /\ heuristic = NoHeuristic
    /\ converted = NoConversion
    /\ CocoaNone

SpecGeo == InitGeo /\ [][NextGeo]_vars

\* ---------------------------------------------------------- translation
\* event_mods: the flags as a ModifiersState
event_mods(native) == native.flags

\* modifier_event: Some(KeyboardInput) as a sequence of one, None as << >>
modifier_event(native, keymask, was_key_pressed) ==
    IF was_key_pressed # (keymask \in native.flags)
    THEN <<Portable("KeyboardInput",
                    IF was_key_pressed THEN "Released" ELSE "Pressed",
                    to_virtual_key_code(native.keycode))>>
    ELSE << >>

\* the masks in the order the NSFlagsChanged arm goes through them
MaskOrder == <<"NSShiftKeyMask", "NSControlKeyMask", "NSCommandKeyMask",
               "NSAlternateKeyMask">>

unflipped(m, mask) == m

\* self.modifiers.x_pressed = !self.modifiers.x_pressed
flipped(m, mask) ==
    [m EXCEPT ![Modifiers_field(mask)] = ~m[Modifiers_field(mask)]]

\* the NSFlagsChanged arm from the i-th mask on: the events pushed and the
\* modifiers it leaves
RECURSIVE flags_changed(_, _, _)
flags_changed(native, m, i) ==
    IF i > Len(MaskOrder) THEN [events |-> << >>, modifiers |-> m, given |-> {}]
    ELSE LET mask == MaskOrder[i]
             e == modifier_event(native, mask, m[Modifiers_field(mask)])
             rest == flags_changed(native,
                                   IF e # << >> THEN flipped(m, mask) ELSE m,
                                   i + 1)
         IN [events |-> e \o rest.events, modifiers |-> rest.modifiers,
             given |-> (IF e # << >> THEN {<<mask, e[1].state>>} ELSE {})
                          \cup rest.given]

\* maybe_window.or_else(maybe_key_window)
window_or_key(native) == native.ours \/ native.key_window

\* events.pop_front() returned, the rest queued
Popped(events, m, given) ==
    [returned |-> IF events = << >> THEN << >> ELSE <<Head(events)>>,
     queued |-> IF events = << >> THEN << >> ELSE Tail(events),
     panic |-> "none", modifiers |-> m, given |-> given]

\* return None
ReturnsNone(m) == Popped(<< >>, m, {})

Aborts(m, message) == [ReturnsNone(m) EXCEPT !.panic = message]

\* EventLoop::translate_event with self.modifiers = m; segfault tells what the
\* match on a value that is no variant of NSEventType does
translate_event(native, m, segfault) ==
    CASE native.type \in {"nil", "21"} -> ReturnsNone(m)
      [] native.type = "undocumented" ->
            IF segfault THEN Aborts(m, "SIGSEGV") ELSE ReturnsNone(m)
      [] native.type = "NSKeyUp" -> ReturnsNone(m)
      [] native.type = "NSKeyDown" ->
            IF "NSCommandKeyMask" \in event_mods(native)
                 /\ native.keycode = KeyPeriod
            THEN Popped(modifier_event(native, "NSCommandKeyMask", FALSE), m, {})
            ELSE ReturnsNone(m)
      [] native.type = "NSFlagsChanged" ->
            LET r == flags_changed(native, m, 1)
            IN Popped(r.events, r.modifiers, r.given)
      [] native.type = "NSMouseEntered" ->
            IF ~window_or_key(native) THEN ReturnsNone(m)
            ELSE [Popped(<<Portable("CursorEntered", "none", "none")>>, m, {})
                    EXCEPT !.queued = <<Portable("CursorMoved", "none", "none")>>]
      [] native.type = "NSMouseExited" ->
            Popped(<<Portable("CursorLeft", "none", "none")>>, m, {})
      [] native.type = "NSMouseMoved" ->
            IF ~window_or_key(native) THEN ReturnsNone(m)
            ELSE Popped((IF native.delta[1]
                         THEN <<Portable("Motion", "none", "axis 0")>>
                         ELSE << >>)
                        \o (IF native.delta[2]
                            THEN <<Portable("Motion", "none", "axis 1")>>
                            ELSE << >>)
                        \o (IF native.delta[1] \/ native.delta[2]
                            THEN <<Portable("MouseMotion", "none", "none")>>
                            ELSE << >>),
                        m, {})
      [] native.type = "NSScrollWheel" ->
            IF ~native.ours THEN ReturnsNone(m)
            ELSE [Popped(<<Portable("MouseWheel", "none", "window")>>, m, {})
                    EXCEPT !.queued = <<Portable("MouseWheel", "none", "device")>>]
      [] native.type = "NSEventTypePressure" ->
            Popped(<<Portable("TouchpadPressure", "none", "none")>>, m, {})
      [] native.type = "NSApplicationDefined" ->
            IF native.subtype = "NSApplicationActivatedEventType"
            THEN Aborts(m, "not yet implemented")
            ELSE ReturnsNone(m)
      [] OTHER -> ReturnsNone(m)

\* translate_event(ns_event)
TranslateEvent ==
    /\ translated.panic = "none"
    /\ \E native \in NativeEvents :
       \E segfault \in IF native.type = "undocumented" THEN BOOLEAN ELSE {FALSE} :
          LET r == translate_event(native, modifiers, segfault)
          IN /\ modifiers' = r.modifiers
             /\ translated' = [native |-> native, returned |-> r.returned,
                               queued |-> r.queued, panic |-> r.panic,
                               given |-> r.given]
             /\ flag_events' =
                   [mask \in Masks |->
                       IF \E g \in r.given : g[1] = mask
                       THEN (CHOOSE g \in r.given : g[1] = mask)[2]
                       ELSE flag_events[mask]]
    /\ UNCHANGED <<frame, previous_position, last_moved, notified>>
    /\ UNCHANGED <<appkit, ime, xkb, geo>>

\* handle_touches of the iOS delegate: the phase of a touch
touch_phase(ph) ==
    CASE ph = 0 -> "Started"
      [] ph = 1 -> "Moved"
      [] ph = 3 -> "Ended"
      [] ph = 4 -> "Cancelled"
      [] OTHER -> "panic"

\* handle_touches, for a set of one touch
HandleTouches ==
    /\ translated.panic = "none"
    /\ \E ph \in TouchPhases :
          translated' =
              IF touch_phase(ph) = "panic"
              THEN [NoTranslation EXCEPT
                       !.native = [NoNative EXCEPT !.type = "UITouch",
                                                   !.phase = ph],
                       !.panic = "unexpected touch phase"]
              ELSE [NoTranslation EXCEPT
                       !.native = [NoNative EXCEPT !.type = "UITouch",
                                                   !.phase = ph],
                       !.queued = <<Portable("Touch", touch_phase(ph),
                                             "none")>>]
    /\ UNCHANGED <<modifiers, flag_events, frame, previous_position, last_moved,
                   notified>>
    /\ UNCHANGED <<appkit, ime, xkb, geo>>

NextTranslate ==
    \/ TranslateEvent
    \/ HandleTouches

\* An EventLoop that runs nothing and is handed native events one by one.
InitTranslate ==
    /\ InitHandler
    /\ callback = FALSE
    /\ phase = "new"
    /\ InitRest
    /\ ImeClosed
    /\ env = BareEnvironment
    /\ XkbOpen
    /\ GeoNone
    /\ CocoaNone

SpecTranslate == InitTranslate /\ [][NextTranslate]_vars

\* ------------------------------------------------- the window delegate
\* AppKit moves or resizes the window; the delegate is notified afterwards
SetFrame ==
    /\ \E rect \in Frames : rect # frame /\ frame' = rect
    /\ UNCHANGED <<previous_position, last_moved, notified>>
    /\ UNCHANGED <<modifiers, flag_events, translated>>
    /\ UNCHANGED <<appkit, ime, xkb, geo>>

\* Weak<Mutex<PendingEvents>>::access with the event loop's queue alive: it
\* runs the closure on the locked queue
access(queued, event) == Append(queued, event)

\* emit_event: pending_events.access(|pending| pending.queue_event(event))
emit_event(queued, event) == access(queued, event)

\* emit_resize_event; the content view fills the frame
emit_resize_event(queued) == emit_event(queued, Resized(frame.size))

moved_always(previous, position) == TRUE

\* let moved = self.previous_position != Some((x, y))
moved(previous, position) == previous # position

\* emit_move_event: the events queued after it and the position it leaves in
\* previous_position
emit_move_event(queued) ==
    LET x == frame.origin[1]
        y == bottom_left_to_top_left(frame)
    IN
    IF moved(previous_position, <<x, y>>)
    THEN [queued |-> emit_event(queued, Moved(<<x, y>>)),
          previous_position |-> <<x, y>>, last_moved |-> <<x, y>>]
    ELSE [queued |-> queued, previous_position |-> previous_position,
          last_moved |-> last_moved]

\* window_did_resize
WindowDidResize ==
    /\ LET r == emit_move_event(emit_resize_event(<< >>))
       IN
       /\ notified' = [op |-> "window_did_resize", queued |-> r.queued]
       /\ previous_position' = r.previous_position
       /\ last_moved' = r.last_moved
    /\ UNCHANGED frame
    /\ UNCHANGED <<modifiers, flag_events, translated>>
    /\ UNCHANGED <<appkit, ime, xkb, geo>>

\* window_did_move
WindowDidMove ==
    /\ LET r == emit_move_event(<< >>)
       IN
       /\ notified' = [op |-> "window_did_move", queued |-> r.queued]
       /\ previous_position' = r.previous_position
       /\ last_moved' = r.last_moved
    /\ UNCHANGED frame
    /\ UNCHANGED <<modifiers, flag_events, translated>>
    /\ UNCHANGED <<appkit, ime, xkb, geo>>

NextDelegate ==
    \/ SetFrame
    \/ WindowDidResize
    \/ WindowDidMove

\* WindowDelegateState::new on a window anywhere on the display
InitDelegate ==
    /\ InitHandler
    /\ callback = FALSE
    /\ phase = "new"
    /\ InitRest
    /\ ImeClosed
    /\ env = BareEnvironment
    /\ XkbOpen
    /\ GeoNone
    /\ modifiers = Modifiers_default
    /\ flag_events = [m \in Masks |-> "none"]
    /\ translated = NoTranslation
    /\ frame \in Frames
    /\ previous_position = NoPosition
    /\ last_moved = NoPosition
    /\ notified = NoNotification

SpecDelegate == InitDelegate /\ [][NextDelegate]_vars

\* ---------------------------------------------------------------- claims
AfterNewEvents == trace # << >> /\ Last(trace).type = "NewEvents"
ClearedReturned == phase = "waiting" /\ last_cleared = "continued"

\* C1: once cleared has observed Exit, the callback is invoked once more, with
\* LoopDestroyed, and for nothing else.
C1_OnlyLoopDestroyedAfterExit ==
    stop_at > 0 =>
        /\ Len(trace) <= stop_at + 1
        /\ Len(trace) = stop_at + 1 => Last(trace).type = "LoopDestroyed"
        /\ phase = "exited" => Len(trace) = stop_at + 1

C3_Fifo ==
    LET given == SelectSeq(trace, LAMBDA e : e.type = "Queued") IN
    /\ [i \in 1..Len(given) |-> given[i].id] \o batch \o pending_events
          = [i \in 1..(next_id - 1) |-> i]
    /\ \A i \in 1..Len(trace) :
          trace[i].type = "Queued" =>
              /\ i > 1
              /\ trace[i - 1].type \in {"NewEvents", "Queued"}
              /\ i < Len(trace) =>
                    trace[i + 1].type \in {"Queued", "EventsCleared"}

C3_Witness ==
    /\ \E i \in 1..(Len(trace) - 2) :
          /\ trace[i] = Seen(Queued(1))
          /\ trace[i + 1] = Seen(Queued(2))
          /\ trace[i + 2].type = "EventsCleared"
    /\ pending_events = << >>

\* C4: once the control flow is Exit it stays Exit.
C4_ExitMonotonic == [][control_flow = Exit => control_flow' = Exit]_vars

\* C5 as stated: every NewEvents hands the callback the control flow Poll.
C5_PollEveryIteration == AfterNewEvents => handed = Poll

\* C5 as amended: the first NewEvents hands the callback Poll, and every later
\* one hands it the value left at the end of the previous iteration.
C5_CarriedOver ==
    AfterNewEvents => handed = IF Len(trace) = 1 THEN Poll ELSE left

C5_Witness == AfterNewEvents /\ Len(trace) > 1 /\ handed = Wait

\* C6: the cause of NewEvents is Init on the first iteration, and otherwise
\* follows from the control flow left by the previous iteration and the time.
C6_Cause ==
    AfterNewEvents =>
        IF Len(trace) = 1
        THEN last_cause = CauseInit
        ELSE CASE left = Poll -> last_cause.kind = "Poll"
               [] left = Wait ->
                     /\ last_cause.kind = "WaitCancelled"
                     /\ last_cause.requested_resume = None
               [] left.tag = "WaitUntil" ->
                     /\ last_cause.requested_resume = left.at
                     /\ last_cause.kind = IF now >= left.at
                                          THEN "ResumeTimeReached"
                                          ELSE "WaitCancelled"
               [] left = Exit -> TRUE

C6_Witness ==
    /\ AfterNewEvents
    /\ left.tag = "WaitUntil" /\ now = left.at
    /\ last_cause.kind = "ResumeTimeReached"

\* C7: after every cleared that returns without stopping, the waker is set
\* for the control flow the callback left.
WakerFor(cf) ==
    CASE cf.tag = "Poll" -> WakerStarted
      [] cf.tag = "Wait" -> WakerStopped
      [] cf.tag = "WaitUntil" -> WakerAt(cf.at)
      [] OTHER -> WakerStopped

C7_WakerMatches == ClearedReturned => waker = WakerFor(control_flow)

\* C8: cleared issues a waker call exactly when the control flow at the end of
\* the iteration differs from the one recorded at its start.
C8_NoCallUnlessChanged ==
    /\ ClearedReturned =>
          (waker_call = "none" <=> control_flow = control_flow_prev)
    /\ (phase = "waiting" /\ last_cleared = "stopped") => waker_call = "none"

C8_Witness ==
    /\ ClearedReturned
    /\ control_flow = control_flow_prev
    /\ control_flow.tag = "WaitUntil"
    /\ waker_call = "none"
    /\ waker = WakerAt(control_flow.at)
\* C9: the user callback never runs in two invocations at once, whatever
\* threads call the notifications; a thread is inside the callback only
\* through a notification and only while it holds the callback's lock.
InCallback == {t \in Threads : thr[t].pc = "in_callback"}

C9_OneCallbackAtATime ==
    /\ Cardinality(InCallback) <= 1
    /\ \A t \in InCallback :
          thr[t].op \in Notifications /\ callback_lock = t

C9_Witness ==
    \E t, u \in Threads :
        /\ thr[t].pc = "in_callback"
        /\ thr[u].pc = "want"
        /\ pending_events # << >>

\* C10: a send_event made while the loop is alive returns Ok.
C10_SendEventReturnsOk == proxy_result # "none" => proxy_result = "Ok"

\* C11: a thread other than the main thread that constructs the event loop
\* or queues events is rejected (it panics), and the call leaves the handler,
\* its pending queue and the loop as they were.
C11_OffThreadRejected ==
    [][\A t \in Threads \ {MainThread} :
          thr'[t] # thr[t] =>
              /\ thr'[t].pc = "panicked"
              /\ thr'[t].op \in {"new", "queue_event", "queue_events"}
              /\ UNCHANGED <<handler, loop>>]_vars

C11_Witness ==
    \E t \in Threads \ {MainThread} :
        /\ thr[t] = Rejected("queue_events")
        /\ phase = "new"
        /\ Len(pending_events) = MaxPending

\* C12: a negotiation calls XOpenIM for the XMODIFIERS locale (if there is
\* one), then the advertised servers in their order (if the query gave any),
\* then the two fallbacks; it stops at the first that opens, and its result
\* names the tier of that one; it is Failure only when every one failed.
Ids(locales, tier) == [i \in 1..Len(locales) |-> <<tier, i>>]
Order(p) ==
    Ids(p.xmodifiers, "XModifiers")
        \o (IF p.xim_servers.some THEN Ids(p.xim_servers.list, "XimServers")
            ELSE << >>)
        \o Ids(p.fallbacks, "Fallbacks")
IsPrefix(a, b) == Len(a) <= Len(b) /\ \A i \in 1..Len(a) : a[i] = b[i]

C12_FirstThatOpens ==
    negotiation.result # "none" =>
        LET a == negotiation.attempts
            order == Order(potential_input_methods)
        IN
        /\ IsPrefix(a, order)
        /\ \A i \in 1..(Len(a) - 1) : a[i] \notin negotiation.opened
        /\ IF negotiation.result = "Failure"
           THEN a = order /\ negotiation.opened = {}
           ELSE /\ a # << >>
                /\ Last(a) \in negotiation.opened
                /\ Last(a)[1] = negotiation.result

C12_Witness ==
    /\ negotiation.attempts =
          <<(<<"XModifiers", 1>>), (<<"XimServers", 1>>), (<<"XimServers", 2>>)>>
    /\ negotiation.result = "XimServers"
    /\ ime_phase = "open"

\* C13: between a server destroy notification and the instantiate
\* notification that follows, is_destroyed() is true, every registered
\* window keeps its key with no native context (None), and get_context gives
\* None for every window.
C13_DestroyedBetween ==
    bounce = "destroyed" =>
        /\ is_destroyed
        /\ Keys(contexts) = Keys(snap)
        /\ \A w \in Windows : ~contexts[w].some /\ ~get_context(w).some

\* C14: after a server destroy notification followed by an instantiate
\* notification the registry has the window keys it had before the destroy,
\* every key holds a fresh native context, on the input method now held,
\* created with the preedit spot recorded for the window before the destroy;
\* and get_context gives None for a registered window only while the input
\* method is destroyed.
C14_RebuiltInPlace ==
    /\ bounce = "rebuilt" /\ ime_phase = "open" =>
          /\ Keys(contexts) = Keys(snap)
          /\ xims[im].state = "open"
          /\ \A w \in Keys(contexts) :
                /\ contexts[w].some
                /\ get_context(w) = [some |-> TRUE, ic |-> contexts[w].ic]
                /\ contexts[w].ic.im = im
                /\ snap[w].some => contexts[w].ic.im # snap[w].ic.im
                /\ contexts[w].ic.spot = snap[w].ic_spot
                /\ contexts[w].ic_spot = snap[w].ic_spot
    /\ ime_phase = "open" =>
          \A w \in Keys(contexts) : ~get_context(w).some => is_destroyed

C14_Witness ==
    /\ bounce = "rebuilt" /\ ime_phase = "open"
    /\ \E w \in Keys(contexts) :
          /\ snap[w].ic.focused
          /\ snap[w].ic_spot = XPoint(MaxCoord, 0)
          /\ contexts[w].ic_spot = XPoint(MaxCoord, 0)
          /\ contexts[w].ic.im = 3

\* C15: after every successful negotiation (the initial open and every
\* reopen from the destroy or instantiate callbacks) the input method that
\* the registry holds has a destroy-notification callback registered.
C15_DestroyCallbackSet ==
    ime_phase = "open" => xims[im].state = "open" /\ xims[im].destroy_callback

\* C16: at most one input method opened by the negotiator is open at any
\* time: an input method that the registry no longer holds has been closed
\* or destroyed by the server.
C16_AtMostOneOpen ==
    ime_phase = "open" =>
        /\ Cardinality({i \in DOMAIN xims : xims[i].state = "open"}) <= 1
        /\ \A i \in DOMAIN xims : xims[i].state = "open" => i = im

\* C17: after every negotiation attempt through the same
\* PotentialInputMethods a candidate's failed flag is true exactly if the
\* candidate was tried and failed in that attempt: flags of earlier attempts
\* are cleared, the candidate that opened and those after it are not failed.
Flag(p, c) ==
    CASE c[1] = "XModifiers" -> p.xmodifiers[c[2]].failed
      [] c[1] = "XimServers" -> p.xim_servers.list[c[2]].failed
      [] c[1] = "Fallbacks" -> p.fallbacks[c[2]].failed

C17_FailedThisAttempt ==
    negotiation.result # "none" =>
        \A c \in Range(Order(potential_input_methods)) :
            Flag(potential_input_methods, c) <=>
                (c \in Range(negotiation.attempts) /\ c \notin negotiation.opened)

C17_Witness ==
    /\ negotiation.nth = 3
    /\ negotiation.result = "XimServers"
    /\ negotiation.attempts = <<(<<"XModifiers", 1>>), (<<"XimServers", 1>>)>>
    /\ Flag(potential_input_methods, <<"XModifiers", 1>>)
    /\ ~Flag(potential_input_methods, <<"XimServers", 1>>)
    /\ ~Flag(potential_input_methods, <<"Fallbacks", 1>>)
    /\ ~Flag(potential_input_methods, <<"Fallbacks", 2>>)
    /\ ime_phase = "open"

\* C18: focus survives a server bounce: a window whose context was focused
\* before the destroy notification has a focused native context after the
\* rebuild, and a window that was unfocused stays unfocused.
C18_FocusSurvives ==
    bounce = "rebuilt" /\ ime_phase = "open" =>
        \A w \in Keys(snap) :
            snap[w].some => contexts[w].ic.focused = snap[w].ic.focused

\* C19: create_context(window) while the input method is destroyed inserts
\* an entry with no native context for the window and returns Ok; while it
\* is open, a null native context gives NewImeContextError::Null, which is
\* neither the X error nor what the destroyed case gives; and on any error
\* the registry is left unchanged.
C19_CreateContext ==
    [][last'.op = "create_context" =>
          LET w == last'.window IN
          /\ last'.ret \in {"Ok", "Null", "XError"}
          /\ destroyed =>
                /\ last'.ret = "Ok"
                /\ contexts' = [contexts EXCEPT ![w] = NoContext]
                /\ xims' = xims
          /\ last'.ret # "Ok" =>
                /\ ~destroyed
                /\ contexts' = contexts
          /\ ~destroyed /\ last'.ret = "Ok" =>
                /\ contexts'[w].key /\ contexts'[w].some
                /\ contexts'[w].ic.im = im
                /\ \A v \in Windows \ {w} : contexts'[v] = contexts[v]]_vars

C19_Witness ==
    /\ destroyed
    /\ last.op = "create_context" /\ last.ret = "Ok"
    /\ contexts[last.window] = NoContext

\* C20 as stated: destroy_context is idempotent: a second destroy_context(w)
\* leaves the state that the first one left and issues no native release,
\* both calls return Ok; and it does nothing and returns Ok when w has a
\* None entry or no entry.
C20_BothReturnOk ==
    [][last'.op = "destroy_context" =>
          LET w == last'.window IN
          /\ last'.ret = "Ok"
          /\ last'.again => contexts' = contexts /\ ~last'.released
          /\ ~(contexts[w].key /\ contexts[w].some) =>
                contexts' = contexts /\ ~last'.released]_vars

\* C20: destroy_context is idempotent: a second destroy_context(w) leaves
\* the state that the first one left, issues no native release and returns
\* Ok; the call does nothing and returns Ok when w has a None entry or no
\* entry, or when the input method is destroyed; a call that releases a
\* native context removes the entry and returns Ok or the X error that the
\* connection reports after the release.
C20_Idempotent ==
    [][last'.op = "destroy_context" =>
          LET w == last'.window
              held == ~destroyed /\ contexts[w].key /\ contexts[w].some
          IN
          /\ last'.released <=> held
          /\ last'.ret \in {"Ok", "XError"}
          /\ held => contexts' = [contexts EXCEPT ![w] = Vacant]
          /\ ~held => contexts' = contexts /\ last'.ret = "Ok"
          /\ last'.again => ~held
          /\ xims' = xims]_vars

C20_Witness ==
    /\ last.op = "destroy_context" /\ last.again
    /\ ~destroyed
    /\ contexts[last.window] = Vacant
    /\ bounce = "none"

\* C21 as stated: what focus and unfocus return tells whether the native
\* focus call was made: a call that made none (context None or absent, or
\* the input method destroyed) and a call whose native call succeeded return
\* different values (Ok(false) and Ok(true)); a native call that succeeded
\* returns what check_errors gives with no error.
FocusOps == {"focus", "unfocus"}

C21_ReturnTellsWhether ==
    last.op \in FocusOps /\ ~last.released =>
        last.ret # check_errors(FALSE)

\* C21: focus(window) and unfocus(window) make no native call and return
\* Ok(()) when the window's entry is None or absent or the input method is
\* destroyed; otherwise they make the native call and return Ok(()) or the X
\* error reported after it, so Ok(()) does not tell the two cases apart;
\* get_context gives None exactly when the entry is None or absent or the
\* input method is destroyed.
C21_FocusReturns ==
    /\ [][last'.op \in FocusOps =>
             LET w == last'.window
                 held == ~destroyed /\ contexts[w].key /\ contexts[w].some
             IN
             /\ last'.released <=> held
             /\ last'.ret \in {"Ok", "XError"}
             /\ ~held => last'.ret = "Ok" /\ contexts' = contexts
             /\ held => contexts' = [contexts EXCEPT ![w].ic.focused =
                                        (last'.op = "focus")]
             /\ xims' = xims]_vars
    /\ [](ime_phase = "open" =>
             \A w \in Windows :
                 ~get_context(w).some <=>
                     (destroyed \/ ~contexts[w].key \/ ~contexts[w].some))

C21_Witness ==
    /\ last.op = "focus" /\ last.ret = "Ok" /\ ~last.released
    /\ ~destroyed
    /\ contexts[last.window] = Vacant

\* C22: setting the preedit spot of a window to the coordinates already
\* recorded for it makes no native update: of two consecutive calls with the
\* same (x, y) at most one calls XSetICValues, and a call with other
\* coordinates calls it once and records the new spot.
C22_SpotOnlyOnChange ==
    [][last'.op = "send_xim_spot" =>
          LET w == last'.window
              held == ~destroyed /\ contexts[w].key /\ contexts[w].some
          IN
          /\ last'.released <=> (held /\ contexts'[w].ic_spot # contexts[w].ic_spot)
          /\ last'.released => contexts'[w].ic.spot = contexts'[w].ic_spot
          /\ ~last'.released => contexts' = contexts
          /\ \A v \in Windows \ {w} : contexts'[v] = contexts[v]
          /\ (last.op = "send_xim_spot" /\ last.window = w /\ last.released
                 /\ last'.released) =>
                contexts'[w].ic_spot # contexts[w].ic_spot
          /\ xims' = xims]_vars

C22_Witness ==
    /\ last.op = "send_xim_spot" /\ last.again /\ ~last.released
    /\ ~destroyed
    /\ contexts[last.window].some
    /\ contexts[last.window].ic_spot = XPoint(0, MaxCoord)
    /\ contexts[last.window].ic.spot = XPoint(0, MaxCoord)

\* C23: exhausting every input-method candidate never ends the program: at
\* construction it is returned as an error value carrying the candidates,
\* and in a rebuild started by a destroy or instantiate notification the
\* failure is reported and the program goes on with no input method, with no
\* panic.
C23_ExhaustionNotFatal ==
    negotiation.result = "Failure" =>
        /\ ime_phase # "panicked"
        /\ negotiation.nth = 1 => ime_phase = "failed"

\* C24: feeding a complete compose sequence through key presses (dead acute,
\* then e) gives one UTF-8 string, on the press that completes the sequence,
\* with the composed keysym, the presses before it giving none; the compose
\* engine is then as new, so that the same sequence fed again gives the same
\* output, with nothing carried over.
Entered(compose, keycode) ==
    Append(IF is_leaf(compose.compose_state.context) THEN Root
           ELSE compose.compose_state.context, keycode)

C25_ConsumedOnce ==
    data.op = "get_data" =>
        /\ ~is_composed(states[data.device])
        /\ ~data.pressed => data.keysym = data.keycode

\* C26: compose feeding happens on key press only: get_data for a key
\* release gives no keysym to the compose engine, leaves the compose state of
\* the device as it was and returns no UTF-8 text.
C26_ReleaseFeedsNothing ==
    [][\A d \in Devices :
          (data'.op = "get_data" /\ data'.device = d /\ ~data'.pressed) =>
             /\ ~data'.fed
             /\ data'.utf8 = NoUtf8
             /\ states[d].exists => states'[d] = states[d]
             /\ ~states[d].exists =>
                   states'[d].compose \in {XkbCompose_new, NoCompose}]_vars

C26_Witness ==
    /\ data.op = "get_data" /\ ~data.pressed /\ data.keycode = "e"
    /\ states[data.device].compose.some
    /\ states[data.device].compose.compose_status = "COMPOSING"
    /\ states[data.device].compose.compose_state.context = <<"dead_acute">>

\* C27: for a key press, what get_data returns follows the compose status
\* after the keysym was fed: Composed gives the composed keysym and string;
\* Composing gives no UTF-8 text; otherwise (Nothing or Cancelled, or no
\* compose support) the direct keysym and the direct UTF-8 lookup of the key
\* are returned.
StatusAfter(compose, keycode) ==
    IF xkb_keysym_is_modifier(keycode) THEN compose.compose_status
    ELSE IF Entered(compose, keycode) \in Sequences THEN "COMPOSED"
    ELSE IF Entered(compose, keycode) \in Internal THEN "COMPOSING"
    ELSE IF is_leaf(compose.compose_state.context) THEN "NOTHING"
    ELSE "CANCELLED"

Composed(compose, keycode) ==
    Composition(IF xkb_keysym_is_modifier(keycode)
                THEN compose.compose_state.context
                ELSE Entered(compose, keycode))

C27_ByStatus ==
    [][\A d \in Devices :
          (data'.op = "get_data" /\ data'.device = d /\ data'.pressed) =>
             LET compose == IF states[d].exists THEN states[d].compose
                            ELSE states'[d].compose
                 status == IF compose.some
                           THEN StatusAfter(compose, data'.keycode)
                           ELSE "none"
                 direct == IF key_get_utf8(data'.keycode) = "" THEN NoUtf8
                           ELSE key_get_utf8(data'.keycode)
             IN
             CASE status = "COMPOSED" ->
                     LET c == Composed(compose, data'.keycode) IN
                     /\ data'.keysym = c.keysym
                     /\ data'.utf8 = IF c.utf8 = "" THEN NoUtf8 ELSE c.utf8
               [] status = "COMPOSING" ->
                     /\ data'.utf8 = NoUtf8
                     /\ data'.keysym = data'.keycode
               [] OTHER ->
                     /\ data'.keysym = data'.keycode
                     /\ data'.utf8 = direct]_vars

C27_Witness ==
    /\ data.op = "get_data" /\ data.pressed /\ data.keycode = "e"
    /\ data.keysym = "e" /\ data.utf8 = "e"
    /\ states[data.device].compose.some
    /\ states[data.device].compose.compose_status = "NOTHING"

\* C28: a raw query (get_data_raw) never changes compose state and returns no
\* UTF-8 text: every state that exists is left as it was, so the get_data
\* calls of the device give what they would give without the raw query.
C28_RawLeavesCompose ==
    [][\A d \in Devices :
          (data'.op = "get_data_raw" /\ data'.device = d
           /\ xkb_phase' = "open") =>
             /\ data'.utf8 = NoUtf8
             /\ ~data'.fed
             /\ data'.keysym = data'.keycode
             /\ \A e \in Devices \ {d} : states'[e] = states[e]
             /\ states[d].exists => states'[d] = states[d]
             /\ ~states[d].exists =>
                   /\ states'[d].exists
                   /\ states'[d].compose \in {XkbCompose_new, NoCompose}]_vars

C28_Witness ==
    /\ data.op = "get_data_raw" /\ data.pressed /\ data.keycode = "e"
    /\ data.keysym = "e"
    /\ states[data.device].compose.compose_status = "COMPOSING"
    /\ states[data.device].compose.compose_state.context = <<"dead_acute">>

\* C29: keyboard state is per device: the state of a device comes to exist
\* by a get_data, get_data_raw or update for that device and by nothing
\* else, and every such call leaves one; once created it is never replaced
\* by a later event (compose progress is kept), and an event for one device
\* never changes the compose or modifier state of another device.
XkbOps == {"get_data", "get_data_raw", "update"}

C29_PerDevice ==
    /\ [][\A d \in Devices :
             /\ states'[d] # states[d] =>
                   data'.device = d /\ data'.op \in XkbOps
             /\ states[d].exists => states'[d].exists
             /\ (data'.device = d /\ data'.op \in XkbOps /\ xkb_phase' = "open")
                   => states'[d].exists
             /\ (states[d].exists /\ data'.device = d /\ data'.op = "update")
                   => states'[d].compose = states[d].compose
             /\ (states[d].exists /\ data'.device = d
                 /\ data'.op = "get_data_raw") => states'[d] = states[d]
             /\ (states[d].exists /\ data'.device = d /\ data'.op = "get_data")
                   => /\ states'[d].mods = states[d].mods
                      /\ states'[d].compose.some = states[d].compose.some
                      /\ ~data'.fed =>
                            states'[d].compose = states[d].compose]_vars
    /\ [](\A d \in Devices :
             (data.op = "none" /\ xkb_phase = "open") => ~states[d].exists)

C29_Witness ==
    /\ data.op = "update" /\ data.device = 2 /\ data.modifiers
    /\ states[2].mods /\ ~states[1].mods
    /\ states[1].compose.compose_status = "COMPOSING"
    /\ states[2].compose.compose_status = "CANCELLED"

\* C30: get_frame_extents_heuristic takes the Supported path exactly when the
\* window manager supports _NET_FRAME_EXTENTS and the property of the window
\* holds at least four values; otherwise the UnsupportedNested path exactly
\* when the window is nested; otherwise the UnsupportedBordered path, with
\* the four extents equal to the border width of the window.
C30_ThreeTiers ==
    heuristic.heuristic_path # "none" =>
        LET reported == /\ answers.supported
                        /\ answers.extents # PropertyError
                        /\ Len(answers.extents) >= 4
            reparented == /\ ~answers.child_is_window
                          /\ answers.client_list # "with"
        IN /\ heuristic.heuristic_path = "Supported" <=> reported
           /\ heuristic.heuristic_path = "UnsupportedNested"
                 <=> ~reported /\ reparented
           /\ heuristic.heuristic_path = "UnsupportedBordered"
                 <=> ~reported /\ ~reparented
           /\ heuristic.heuristic_path = "UnsupportedBordered" =>
                 /\ heuristic.frame_extents.left = answers.border
                 /\ heuristic.frame_extents.right = answers.border
                 /\ heuristic.frame_extents.top = answers.border
                 /\ heuristic.frame_extents.bottom = answers.border

C30_Witness ==
    /\ heuristic.heuristic_path = "UnsupportedBordered"
    /\ answers.supported
    /\ answers.extents = <<1, 1, 2>>
    /\ answers.border = 3
    /\ heuristic.frame_extents = FrameExtents_new(3, 3, 3, 3)

C32_NestedExtents ==
    converted.op = "get_outer_size"
      /\ heuristic.heuristic_path = "UnsupportedNested" =>
        LET outer == outer_geometry(answers)
            minus(a, b) == IF a >= b THEN a - b ELSE 0
            top == minus(answers.inner_y_rel_root, outer.y_rel_parent)
            half == minus(outer.width, answers.width) \div 2
        IN /\ heuristic.frame_extents =
                  FrameExtents_new(half, half, top,
                      minus(minus(outer.height, answers.height), top))
           /\ converted.out = <<outer.width, outer.height>>

\* C33: translating a native event never panics or aborts the loop, whatever
\* the event: an undocumented type, an application-defined activation event,
\* an unexpected touch phase or a key code out of range.
C33_NeverPanics == translated.panic = "none"

\* C39: after an NSFlagsChanged event is translated, the tracked flag of each
\* of shift, control, command and alt equals the presence of its mask in the
\* flags of the event; a KeyboardInput is given for a modifier exactly when
\* its tracked flag changes, and its state differs from that of the event
\* given for the modifier before, the first being Pressed.
C39_FlagsTracked ==
    [][translated'.native.type = "NSFlagsChanged" =>
          LET out == translated'.returned \o translated'.queued
              masks == {g[1] : g \in translated'.given}
          IN /\ \A mask \in Masks :
                   /\ modifiers'[Modifiers_field(mask)]
                         = (mask \in translated'.native.flags)
                   /\ mask \in masks
                         <=> modifiers'[Modifiers_field(mask)]
                               # modifiers[Modifiers_field(mask)]
                   /\ mask \notin masks => flag_events'[mask] = flag_events[mask]
                   /\ mask \in masks =>
                         /\ flag_events'[mask] # flag_events[mask]
                         /\ flag_events[mask] = "none"
                               => flag_events'[mask] = "Pressed"
                         /\ flag_events'[mask]
                               = IF modifiers'[Modifiers_field(mask)]
                                 THEN "Pressed" ELSE "Released"
             /\ Len(out) = Cardinality(masks)
             /\ \A i \in 1..Len(out) : out[i].event = "KeyboardInput"
             /\ \A mask \in masks :
                   Cardinality({i \in 1..Len(out) :
                                   out[i].state = flag_events'[mask]})
                     = Cardinality({g \in translated'.given :
                                       g[2] = flag_events'[mask]})
      ]_vars

C39_Witness ==
    /\ translated.native.type = "NSFlagsChanged"
    /\ translated.native.flags = {"NSCommandKeyMask"}
    /\ translated.given = {<<"NSShiftKeyMask", "Released">>,
                           <<"NSControlKeyMask", "Released">>,
                           <<"NSCommandKeyMask", "Pressed">>}
    /\ Len(translated.queued) = 2
    /\ modifiers = [Modifiers_default EXCEPT !.win_pressed = TRUE]

\* C34: XDestroyIC and XCloseIM are never called on an input context or an
\* input method that the server has destroyed: destroy_context releases a
\* context of an input method that is open, and Drop releases contexts of
\* input methods that are open and closes one that is open.
C34_ReleasesLiveHandles ==
    [][/\ last'.op = "destroy_context" /\ last'.released
            /\ contexts[last'.window].some =>
              xims[contexts[last'.window].ic.im].state = "open"
       /\ ime_phase = "open" /\ ime_phase' \in {"dropped", "panicked"}
            /\ xims'[im].state = "closed" =>
              /\ xims[im].state = "open"
              /\ \A w \in Windows :
                    contexts[w].some => xims[contexts[w].ic.im].state = "open"
      ]_vars

\* C35: what cleared decides about stopping is latched within the iteration:
\* once the control flow is Exit where cleared looks at it (before the drain,
\* after a dispatched event, after EventsCleared) cleared ends by stopping the
\* loop, whatever the callback writes later in the iteration, and the events
\* taken and EventsCleared are given to the callback first.
C35_StopLatched ==
    [][/\ pc = "idle" /\ pc' = "dispatch" =>
              will_stop' = (control_flow = Exit)
       /\ pc = "dispatch" /\ pc' = "dispatch" /\ batch' # batch =>
              /\ will_stop \/ control_flow' = Exit => will_stop'
              /\ batch' = Tail(batch)
              /\ trace' = Append(trace, Seen(Queued(Head(batch))))
       /\ pc = "dispatch" /\ pc' = "idle" =>
              /\ batch = << >>
              /\ trace' = Append(trace, Seen(EventsCleared))
              /\ will_stop \/ control_flow' = Exit =>
                    stop_requested' /\ last_cleared' = "stopped"
              /\ ~stop_requested /\ stop_requested' =>
                    will_stop \/ control_flow' = Exit
      ]_vars

C35_Witness ==
    /\ last_cleared = "stopped"
    /\ stop_requested
    /\ pc = "idle"
    /\ Len(trace) >= 4
    /\ trace[Len(trace)] = Seen(EventsCleared)
    /\ trace[Len(trace) - 1] = Seen(Queued(2))
    /\ trace[Len(trace) - 2] = Seen(Queued(1))
    /\ control_flow = Wait

\* C36: an event queued while cleared is dispatching its batch is not given
\* to the callback in that iteration: the batch only shrinks, the event stays
\* in the queue, and the queue is taken again only by a later cleared, after
\* a NewEvents that follows the EventsCleared of this iteration; every queued
\* event is given in queue order, once, or is still waiting.
C36_QueuedForLater ==
    /\ [][/\ pc = "dispatch" /\ pc' = "dispatch" =>
                /\ batch' = batch \/ (batch # << >> /\ batch' = Tail(batch))
                /\ Len(pending_events') >= Len(pending_events)
                /\ SubSeq(pending_events', 1, Len(pending_events))
                      = pending_events
          /\ pc = "idle" /\ pc' = "dispatch" =>
                /\ batch' = pending_events
                /\ pending_events' = << >>
                /\ \E i \in 1..Len(trace) :
                      /\ trace[i].type = "NewEvents"
                      /\ \A k \in (i + 1)..Len(trace) :
                            trace[k].type # "EventsCleared"
          /\ Len(trace') > Len(trace) /\ Last(trace').type = "Queued" =>
                /\ pc = "dispatch"
                /\ batch # << >>
                /\ Last(trace').id = Head(batch)
         ]_vars
    /\ [](LET given == SelectSeq(trace, LAMBDA e : e.type = "Queued") IN
          /\ \A i \in 1..Len(given) : given[i].id = i
          /\ \A i \in 1..Len(batch) : batch[i] = Len(given) + i
          /\ \A i \in 1..Len(pending_events) :
                pending_events[i] = Len(given) + Len(batch) + i
          /\ Len(given) + Len(batch) + Len(pending_events) = next_id - 1)

C36_Witness ==
    /\ pc = "dispatch"
    /\ batch = << >>
    /\ pending_events = <<2>>
    /\ Last(trace) = Seen(Queued(1))
    /\ \E i \in 1..Len(trace) : trace[i].type = "EventsCleared"

\* C37: the unreachable!() arm of AppState::cleared is never executed.
C37_UnreachableNotReached == panic # "unreachable"

\* a step of Ime::send_xim_spot, and a rebuild that went through
C38_Request == last'.op = "send_xim_spot" /\ ime_phase' = "open"

C38_Rebuild == ime_phase = "open" /\ ime_phase' = "open" /\ im' # im

C40_Position == <<frame.origin[1], bottom_left_to_top_left(frame)>>

C40_MovedIn(queued) == {i \in DOMAIN queued : queued[i].type = "Moved"}

\* C40: a notification queues a Moved only when the window's position
\* differs from the position of the last Moved queued for the window, and
\* the Moved carries the window's position; a resize notification queues
\* Resized first, and after it a Moved exactly when the position differs.
C40_MovedOnlyWhenMoved ==
    [][notified' # notified =>
          LET queued == notified'.queued
          IN
          /\ \A i \in C40_MovedIn(queued) :
                /\ queued[i].position # last_moved
                /\ queued[i].position = C40_Position
                /\ last_moved' = queued[i].position
          /\ C40_MovedIn(queued) = {} => last_moved' = last_moved
          /\ notified'.op = "window_did_move" =>
                queued \in {<< >>, <<Moved(C40_Position)>>}
          /\ notified'.op = "window_did_resize" =>
                /\ queued[1] = Resized(frame.size)
                /\ IF C40_Position # last_moved
                   THEN queued = <<Resized(frame.size), Moved(C40_Position)>>
                   ELSE queued = <<Resized(frame.size)>>]_vars

\* a resize that kept the bottom-left corner moved the top-left corner: the
\* Resized is followed by a Moved with a position other than the last one
C40_Witness ==
    /\ notified.op = "window_did_resize"
    /\ Len(notified.queued) = 2
    /\ notified.queued[2].type = "Moved"
    /\ notified.queued[2].position = <<0, 0>>
    /\ frame.origin = <<0, MaxCoord>>
    /\ last_moved = <<0, 0>>

\* a resize notification with the position unchanged queues Resized alone
C40_WitnessUnmoved ==
    /\ notified.op = "window_did_resize"
    /\ Len(notified.queued) = 1
    /\ last_moved = C40_Position
====
